---- MODULE Spec2Model ----
(***************************************************************************)
(* A model of pyvantage (src/pyvantage/__init__.py): the persistent        *)
(* connection to the Vantage controller (VantageConnection), the inbound   *)
(* line dispatcher (Vantage._recv), the entities' handle_update, and the   *)
(* request helper (_RequestHelper) behind the synchronous level reads.     *)
(*                                                                         *)
(* Floating point values are kept in tenths (45.5 is 455).                 *)
(***************************************************************************)
EXTENDS Integers, Sequences, FiniteSets, TLC

(***************************************************************************)
(* Bounds of the model.                                                    *)
(***************************************************************************)
\* foreground threads
NumThreads == 2
\* request() calls over one behaviour (each creates one threading.Event)
MaxRequests == 3
\* level reads (Output.level) made over one behaviour
MaxReads == 2
\* notify() calls made by the free-running notifier of SpecRH
MaxNotifies == 2
\* transport sessions the controller accepts over one behaviour
MaxSessions == 2
\* send_cmd() calls made directly by foreground threads over one behaviour
MaxSends == 2
\* unsolicited status lines the controller pushes over one behaviour
MaxStatus == 1
\* lines fed to the dispatcher over one behaviour of SpecDispatch
MaxLines == 2
\* subscribe() calls over one behaviour of SpecDispatch
MaxSubscribes == 2
\* characters of a text value passed to set_variable_vid
MaxTextLen == 2
\* register_id() calls over one behaviour of SpecRegister
MaxRegisters == 3
NumAreas == 3
MaxShadeReads == 3

Threads == 1..NumThreads
Rounds == 0..(MaxNotifies + MaxStatus + MaxRequests + MaxLines)

VARIABLES
    \* ---- foreground threads --------------------------------------------
    pc,          \* per thread: its position in the call it is making
    exc,         \* per thread: the exception its call raised ("" if none)
    todo,        \* per thread: the commands its call still has to send
    retTo,       \* per thread: where send() returns to
    \* ---- _RequestHelper (the helper of the entity QueryVid) -------------
    events,      \* self.__events: the list of waiting threading.Event objects
    evSet,       \* the Event objects whose flag is set (ev.set() was called)
    rhFirst,     \* per thread: the local  first  of request()
    rhEv,        \* per thread: the local  ev  of request() (0: none)
    nPc,         \* the position of the thread running notify()
    nLocal,      \* the local  events  of notify(): what is left to set
    \* ---- bookkeeping of the _RequestHelper rounds (history) --------------
    nextEv,      \* number of Event objects created so far
    round,       \* number of notify() swaps so far: the current round
    rhRound,     \* per thread: the round in which its request() joined
    rhOrd,       \* per thread: its rank among the joiners of that round
    rhSawEmpty,  \* per thread: whether it found self.__events empty
    joins,       \* per round: request() calls that joined in it
    firsts,      \* per round: joiners that found the list empty
    trigs,       \* per round: action() calls made by the round's joiners
    intervalTrigs, \* action() calls made since the last swap
    lastClosed,  \* [joins, trigs] of the interval the last swap closed
    nSwapped,    \* the list the running/last notify() took at its swap
    nDidSet,     \* the events the running/last notify() has set
    \* ---- VantageConnection ---------------------------------------------
    connected,   \* self._connected
    telnet,      \* self._telnet: 0 is None, else the number of the session
    lock,        \* self._lock: "free", or "bg" while the thread holds it
    bgPc,        \* the position of the connection thread (run)
    hsStep,      \* the position inside _do_login_locked
    line,        \* the local  line  of run()
    bgExc,       \* the exception that ended run() ("" if none)
    \* ---- the transport and the controller behind it ---------------------
    sessions,    \* sessions opened so far
    peerOpen,    \* the controller's end of the current session is open
    wire,        \* commands written to the session, not yet answered
    written,     \* everything written to the current session, in order
    inbuf,       \* lines the controller sent, not yet read
    statusSent,  \* unsolicited status lines pushed so far
    \* ---- Vantage and the entities --------------------------------------
    cmds,        \* Vantage._cmds: the deque of outstanding commands
    nextCmd,     \* number of commands passed to send_cmd so far
    level,       \* per load/shade: self._level
    color_temp,  \* per load: self._color_temp
    rgb,         \* per load: self._rgb
    value,       \* per variable and sensor: self._value
    btn,         \* per button: self._value
    kp,          \* per keypad: self._value (set: it is not None) and
                 \* self._extra_info, a dict from keys to strings
    addedstatus, \* per load: self._addedstatus
    \* ---- history of the connection and the dispatcher -------------------
    connectRet,  \* per thread: what connect() saw when it returned
    lastMatch,   \* the last response line and the command it was matched to
    levelRet,    \* per thread: what its last level read returned
    fed,         \* lines fed to the dispatcher so far (SpecDispatch)
    getloads,    \* the GETLOAD commands written: [ev, round, n] of each
    \* ---- registry, subscribers, setters and the dispatcher's history ------
    subscribers, \* Vantage._subscribers: the entities that have a handler
    idsTab,      \* Vantage._ids as register_id builds it (SpecRegister)
    regLast,     \* the last register_id call and what it did
    newLevel,    \* per thread: the argument of the setter it is in
    fedLog,      \* the lines the controller fed, in the order it sent them
    lastRecv,    \* the last _recv call: the line, the state around it
    callLog,     \* the subscriber invocations so far: [vid, n] of each
    varValue,    \* per thread: the value its last set_variable_vid got
    lastHandler, \* per entity: the handler of the last subscribe() for it
    lastCall,    \* the last call of a function: its arguments and result
    shadeEvents  \* the shade's _query_waiters.__events: the waiting threads

thrVars == <<pc, exc, todo, retTo>>
rhState == <<events, evSet, rhFirst, rhEv, nPc, nLocal>>
rhHist == <<nextEv, round, rhRound, rhOrd, rhSawEmpty, joins, firsts, trigs,
            intervalTrigs, lastClosed, nSwapped, nDidSet>>
connVars == <<connected, telnet, lock, bgPc, hsStep, line, bgExc>>
netVars == <<sessions, peerOpen, wire, written, inbuf, statusSent>>
entVars == <<level, color_temp, rgb, value, btn, kp>>
vanVars == <<cmds, nextCmd, addedstatus>>
histVars == <<connectRet, lastMatch, levelRet, fed, getloads>>

extVars == <<subscribers, idsTab, regLast, newLevel, fedLog, lastRecv,
             callLog, varValue, lastHandler, lastCall,
             shadeEvents>>

vars == <<thrVars, rhState, rhHist, connVars, netVars, entVars, vanVars,
          histVars, extVars>>

SeqToSet(s) == {s[i] : i \in 1..Len(s)}

(***************************************************************************)
(* Lines and tokens.  A line is its first two characters (head) and the    *)
(* rest as a sequence of units: a unit is one separator character (" " or  *)
(* ":") or a maximal run of other characters (a word).                     *)
(***************************************************************************)
Separators == {" ", ":"}

Line(h, r) == [head |-> h, rest |-> r]

\* str.rstrip(), line 201: trailing white space is dropped.
RECURSIVE rstrip(_)
rstrip(units) ==
    IF units # <<>> /\ units[Len(units)] = " "
    THEN rstrip(SubSeq(units, 1, Len(units) - 1))
    ELSE units

\* re.split(r'[ :]', s), line 798: the pieces between the separator
\* characters, the empty ones included.
RECURSIVE re_split(_, _)
re_split(units, cur) ==
    IF units = <<>> THEN <<cur>>
    ELSE IF Head(units) \in Separators
         THEN <<cur>> \o re_split(Tail(units), "")
         ELSE re_split(Tail(units), Head(units))

\* The numeric tokens of the model and float() of each, in tenths.
FloatTable ==
    ("0" :> 0) @@ ("1" :> 10) @@ ("2" :> 20) @@ ("3" :> 30) @@ ("4" :> 40)
    @@ ("5" :> 50) @@ ("6" :> 60) @@ ("7" :> 70) @@ ("8" :> 80)
    @@ ("9" :> 90) @@ ("10" :> 100) @@ ("11" :> 110) @@ ("33" :> 330)
    @@ ("45.5" :> 455) @@ ("100" :> 1000) @@ ("250" :> 2500) @@ ("-5" :> -50)
    @@ ("-1" :> -10)

\* float(tok) succeeds
is_float(tok) == tok \in DOMAIN FloatTable
float(tok) == FloatTable[tok]
\* str.isdigit(): a non-empty string of digits
isdigit(tok) == tok \in (DOMAIN FloatTable) \ {"45.5", "-5", "-1"}
\* int(tok) succeeds (on the tokens of the model)
is_int(tok) == tok \in (DOMAIN FloatTable) \ {"45.5"}
int(tok) == FloatTable[tok] \div 10

(***************************************************************************)
(* The entities the configuration loader registered.                       *)
(***************************************************************************)
NoVid == 0

\* vid |-> the constructor arguments of the entity
Entities ==
    (1 :> [cls |-> "Output", output_type |-> "LIGHT", cc_vid |-> 2,
           dmx_color |-> FALSE])
    @@ (2 :> [cls |-> "Output", output_type |-> "COLOR", cc_vid |-> 1,
              dmx_color |-> FALSE])
    @@ (3 :> [cls |-> "Output", output_type |-> "COLOR", cc_vid |-> NoVid,
              dmx_color |-> FALSE])
    @@ (4 :> [cls |-> "Output", output_type |-> "LIGHT", cc_vid |-> NoVid,
              dmx_color |-> TRUE])
    @@ (5 :> [cls |-> "Shade", output_type |-> "", cc_vid |-> NoVid,
              dmx_color |-> FALSE])
    @@ (6 :> [cls |-> "Variable", output_type |-> "", cc_vid |-> NoVid,
              dmx_color |-> FALSE])
    @@ (7 :> [cls |-> "Keypad"])
    @@ (8 :> [cls |-> "Button", keypad |-> 7, num |-> 1, name |-> "Scene"])
    @@ (9 :> [cls |-> "Button", keypad |-> NoVid, num |-> 0,
              name |-> "Door"])
    @@ (10 :> [cls |-> "LightSensor", kind |-> "light"])
    @@ (11 :> [cls |-> "OmniSensor", kind |-> "power"])

Vids == DOMAIN Entities
Outputs == {v \in Vids : Entities[v].cls = "Output"}
Shades == {v \in Vids : Entities[v].cls = "Shade"}
Variables == {v \in Vids : Entities[v].cls = "Variable"}
Keypads == {v \in Vids : Entities[v].cls = "Keypad"}
Buttons == {v \in Vids : Entities[v].cls = "Button"}
Sensors == {v \in Vids : Entities[v].cls \in {"LightSensor", "OmniSensor"}}

\* str.upper() of the sensor kinds of the model, line 1783
upper(kind) == CASE kind = "light" -> "LIGHT"
                 [] kind = "power" -> "POWER"
                 [] kind = "current" -> "CURRENT"
                 [] OTHER -> kind

\* Vantage._vid_to_load, lines 287 and 1017: every Output by its vid
vid_to_load == Outputs

\* The command types the constructors pass to register_id
\* (lines 1260, 1314-1316, 1551, 1644, 1766, 1783, 1803).
CmdTypesOf(v) ==
    CASE Entities[v].cls = "Output" ->
            {"LOAD"} \cup (IF Entities[v].dmx_color THEN {"STATUS"} ELSE {})
      [] Entities[v].cls = "Shade" -> {"BLIND"}
      [] Entities[v].cls = "Variable" -> {"VARIABLE"}
      [] Entities[v].cls = "Keypad" -> {"KEYPAD"}
      [] Entities[v].cls = "Button" -> {"BTN"}
      [] Entities[v].cls = "LightSensor" -> {"LIGHT"}
      [] Entities[v].cls = "OmniSensor" -> {upper(Entities[v].kind)}

\* Vantage._ids after the loader ran: command type |-> the vids under it
ids(cmd_type) == {v \in Vids : cmd_type \in CmdTypesOf(v)}
RegisteredTypes == UNION {CmdTypesOf(v) : v \in Vids}

\* Vantage._r_cmds and Vantage._s_cmds, lines 678-684
r_cmds == {"LOGIN", "LOAD", "STATUS", "GETLOAD", "VARIABLE", "ERROR", "TASK",
           "GETBLIND", "BLIND", "INVOKE", "GETLIGHT", "GETPOWER",
           "GETCURRENT", "GETSENSOR", "ADDSTATUS", "DELSTATUS", "GETCUSTOM",
           "RAMPLOAD", "GETTEMPERATURE"}
s_cmds == {"LOAD", "TASK", "BTN", "VARIABLE", "BLIND", "STATUS"}

\* The entity whose _RequestHelper the model follows step by step.
QueryVid == 1

\* The shade whose level the application reads.
ShadeVid == 5

None == "None"

\* A level_to_kelvin that does not clamp.
level_to_kelvin_unclamped(lv) == ((6000 - 2200) * lv) \div 100 + 22000

\* A kelvin_to_level that returns whole levels only.
kelvin_to_level_whole(kelvin) ==
    IF kelvin < 22000 THEN [num |-> 0, den |-> 1]
    ELSE IF kelvin > 60000 THEN [num |-> 100, den |-> 1]
    ELSE [num |-> (kelvin - 22000) \div ((6000 - 2200) \div 10), den |-> 1]

\* kelvin_to_level, lines 51-57, for a kelvin in tenths: the level as the
\* fraction num/den, (kelvin-2200)/(6000-2200) * 100 computed exactly
\* (the factors 100 and 10 cancelled against the denominator)
kelvin_to_level(kelvin) ==
    IF kelvin < 22000 THEN [num |-> 0, den |-> 1]
    ELSE IF kelvin > 60000 THEN [num |-> 100, den |-> 1]
    ELSE [num |-> kelvin - 22000, den |-> (6000 - 2200) \div 10]

\* level_to_kelvin, lines 60-66, for a level num/den: the kelvin in tenths,
\* rounded down
level_to_kelvin_frac(l) ==
    IF l.num < 0 THEN 22000
    ELSE IF l.num > 100 * l.den THEN 60000
    ELSE ((6000 - 2200) * l.num) \div (10 * l.den) + 22000

\* level_to_kelvin, lines 60-66 (kelvin and level in tenths)
level_to_kelvin(lv) == level_to_kelvin_frac([num |-> lv, den |-> 10])

\* The state of the entities, as handle_update reads and writes it.
EntState == [level |-> level, color_temp |-> color_temp, rgb |-> rgb,
             value |-> value, btn |-> btn, kp |-> kp]

\* What a handle_update call did: the entities' state after it, the entity
\* it returned (NoVid for None), the exception it raised ("" for none),
\* the entities whose _query_waiters.notify() it called, and the entities
\* the handle_update_and_notify calls inside it got back, in order.
Outcome(E, r, x, n) ==
    [E |-> E, ret |-> r, exc |-> x, rhn |-> n, inner |-> <<>>]

\* An output that releases its waiters on every channel.
rgb_releases_always(char) == TRUE

\* Output.handle_update, lines 1387-1388: if char == 2: notify()
rgb_releases(char) == char = 2

\* Output.handle_update, lines 1352-1389
Output_handle_update(v, args, E) ==
    IF Len(args) = 1
    THEN IF ~is_float(args[1]) THEN Outcome(E, NoVid, "ValueError", {})
         ELSE LET lv == float(args[1]) IN
              IF Entities[v].output_type = "COLOR"
              THEN LET light == Entities[v].cc_vid IN
                   IF light \in vid_to_load
                   THEN Outcome([E EXCEPT !.color_temp[light] =
                                            level_to_kelvin(lv)],
                                light, "", {light})
                   ELSE Outcome(E, v, "", {})
              ELSE Outcome([E EXCEPT !.level[v] = lv], v, "", {v})
    ELSE IF Len(args) = 0 THEN Outcome(E, NoVid, "IndexError", {})
    ELSE IF args[1] # "RGBLoad.GetRGB" THEN Outcome(E, v, "", {})
    ELSE IF Len(args) < 3 THEN Outcome(E, NoVid, "IndexError", {})
    ELSE IF ~is_int(args[2]) \/ ~is_int(args[3])
         THEN Outcome(E, NoVid, "ValueError", {})
    ELSE LET val == int(args[2])
             char == int(args[3]) IN
         IF char < -3 THEN Outcome(E, NoVid, "IndexError", {})
         ELSE LET i == IF char < 0 THEN char + 3 ELSE char
                  E2 == IF char < 3
                        THEN [E EXCEPT !.rgb[v][i + 1] = val]
                        ELSE E IN
              Outcome(E2, v, "", IF rgb_releases(char) THEN {v} ELSE {})

\* A shade for which every named position is the open one.
shade_named_level_open(tok) == 1000

\* Shade.handle_update, lines 1871-1874: the level of OPEN and of CLOSE
shade_named_level(tok) == IF tok = "OPEN" THEN 1000 ELSE 0

\* Shade.handle_update, lines 1864-1884
Shade_handle_update(v, args, E) ==
    IF Len(args) = 0 THEN Outcome(E, NoVid, "IndexError", {})
    ELSE LET tok == args[1] IN
         IF tok \in {"OPEN", "CLOSE"}
         THEN Outcome([E EXCEPT !.level[v] = shade_named_level(tok)],
                      v, "", {})
         ELSE IF tok = "STOP"
              THEN Outcome([E EXCEPT !.level[v] = None], v, "", {})
         ELSE IF tok = "POS"
              THEN IF Len(args) < 2 THEN Outcome(E, NoVid, "IndexError", {})
                   ELSE IF ~is_float(args[2])
                        THEN Outcome(E, NoVid, "ValueError", {})
                        ELSE Outcome([E EXCEPT !.level[v] = float(args[2])],
                                     v, "", {})
         ELSE IF ~is_float(tok) THEN Outcome(E, NoVid, "ValueError", {})
              ELSE Outcome([E EXCEPT !.level[v] = float(tok)], v, "", {})

\* Variable.handle_update, lines 1277-1287
Variable_handle_update(v, args, E) ==
    IF Len(args) = 0 THEN Outcome(E, NoVid, "IndexError", {})
    ELSE IF ~is_float(args[1]) THEN Outcome(E, NoVid, "ValueError", {})
    ELSE Outcome([E EXCEPT !.value[v] = float(args[1])], v, "", {})

\* PollingSensor.handle_update, lines 1744-1754
PollingSensor_handle_update(v, args, E) ==
    IF Len(args) = 0 THEN Outcome(E, NoVid, "IndexError", {})
    ELSE IF ~is_float(args[1]) THEN Outcome(E, NoVid, "ValueError", {})
    ELSE Outcome([E EXCEPT !.value[v] = float(args[1])], v, "", {})

\* Keypad.handle_update, lines 1672-1682, on the list a button passes:
\* _value is the first element, _extra_info a dict of the other two.
Keypad_handle_update(v, num, name, action, E) ==
    [E EXCEPT !.kp[v] = [set |-> TRUE, value |-> num,
                         extra_info |-> [button_name |-> name,
                                         button_action |-> action]]]

\* A dry contact's value for an action a button's value keeps as it is.
drycontact_value_same(action) == action

\* Button.handle_update, lines 1597-1606: the value of a dry contact
drycontact_value(action) ==
    IF action = "PRESS" THEN "Violated"
    ELSE IF action = "RELEASE" THEN "Normal"
    ELSE action

\* Button.handle_update, lines 1582-1608
Button_handle_update(v, args, E) ==
    IF Len(args) = 0 THEN Outcome(E, NoVid, "IndexError", {})
    ELSE LET action == args[1]
             keypad == Entities[v].keypad IN
         IF keypad # NoVid
         THEN LET E1 == [E EXCEPT !.btn[v] = action]
                  E2 == Keypad_handle_update(keypad, Entities[v].num,
                                             Entities[v].name, action, E1)
              IN [Outcome(E2, v, "", {}) EXCEPT !.inner = <<keypad>>]
         ELSE Outcome([E EXCEPT !.btn[v] = drycontact_value(action)],
                      v, "", {})

\* obj.handle_update(args), line 856: the method of the entity's class
handle_update(v, args, E) ==
    CASE Entities[v].cls = "Output" -> Output_handle_update(v, args, E)
      [] Entities[v].cls = "Shade" -> Shade_handle_update(v, args, E)
      [] Entities[v].cls = "Variable" -> Variable_handle_update(v, args, E)
      [] Entities[v].cls = "Button" -> Button_handle_update(v, args, E)
      [] Entities[v].cls \in {"LightSensor", "OmniSensor"} ->
            PollingSensor_handle_update(v, args, E)

(***************************************************************************)
(* Commands and the lines the controller answers them with.                *)
(***************************************************************************)
\* A command: its type, the token after it, and the rank of its send_cmd
\* call (0 for a line of the login procedure, which send_cmd never sees).
Cmd(op, arg, n) == [op |-> op, arg |-> arg, n |-> n]

\* A line the controller sent: re is the command it answers (NoCmd for an
\* unsolicited status line).
CtrlLine(h, r, c) == [head |-> h, rest |-> r, re |-> c]

\* The levels the controller reports for a load.
LoadValues == {"0", "100"}

\* The controller's response to command c.
ResponseLines(c) ==
    IF c.op = "GETLOAD"
    THEN {CtrlLine(<<"R", ":">>, <<c.op, " ", c.arg, " ", val>>, c) :
            val \in LoadValues}
    ELSE {CtrlLine(<<"R", ":">>, <<c.op, " ", c.arg>>, c)}

\* The controller's error response to a command.
ErrorLine(c) ==
    CtrlLine(<<"R", ":">>, <<"ERROR", " ", "Some", " ", "failure">>, c)

\* _do_login_locked, lines 157-165: the lines it writes, in order
LoginCmds == <<Cmd("LOGIN", "user", 0), Cmd("STATUS", "LOAD", 0),
               Cmd("STATUS", "BLIND", 0), Cmd("STATUS", "BTN", 0),
               Cmd("STATUS", "VARIABLE", 0)>>

\* No command: the this_cmd of a line that pops nothing, the re of a
\* status line.
NoCmd == Cmd("None", "", 0)

NoLine == CtrlLine(<<>>, <<>>, NoCmd)

(***************************************************************************)
(* Vantage._recv                                                           *)
(***************************************************************************)
\* line.decode('ascii').rstrip(), line 201
decode_rstrip(ln) ==
    LET r == rstrip(ln.rest) IN
    IF r # <<>> THEN Line(ln.head, r) ELSE Line(rstrip(ln.head), <<>>)

\* What a _recv call did: the entities' state and the deque after it, the
\* command popped for a response (this_cmd, NoCmd if none was popped), the
\* entity whose subscriber is to be called (NoVid if none), the exception
\* that left _recv ("" if none), the helpers notified, and whether an
\* entity's handle_update was called; inner holds the entities the
\* handle_update_and_notify calls made inside that handle_update got back.
RecvOutcome(E, q, c, r, x, n, h) ==
    [E |-> E, cmds |-> q, this_cmd |-> c, ret |-> r, exc |-> x, rhn |-> n,
     handled |-> h, inner |-> <<>>]

\* _recv, line 791: the marker of a response with no outstanding command
Underflow == Cmd("__UNDERFLOW__", "", 0)


\* A _recv that leaves the deque as it is.
recv_pop_none(q) == q

\* _recv, line 785-791: the deque after the pop of a response line
recv_pop(q) == IF Len(q) > 0 THEN Tail(q) ELSE q

\* _recv, lines 789-791: this_cmd
recv_this_cmd(q) == IF Len(q) > 0 THEN Head(q) ELSE Underflow

\* A _recv that hands no line to an entity.
recv_forwards_none(typ, cmd_type) == FALSE

\* A _recv that hands every line for a registered entity to it.
recv_forwards_all(typ, cmd_type) == TRUE

\* _recv, lines 848-851: the lines that reach the entity's handle_update
recv_forwards(typ, cmd_type) ==
    \/ typ = "S"
    \/ typ = "R" /\ cmd_type \in {"LOAD", "POWER", "CURRENT", "SENSOR", "LIGHT"}

\* _recv, lines 824-826: "GET" is stripped from the front
strip_get(cmd_type) ==
    CASE cmd_type = "GETLOAD" -> "LOAD"
      [] cmd_type = "GETPOWER" -> "POWER"
      [] cmd_type = "GETCURRENT" -> "CURRENT"
      [] cmd_type = "GETSENSOR" -> "SENSOR"
      [] cmd_type = "GETLIGHT" -> "LIGHT"
      [] OTHER -> cmd_type

\* _recv, lines 777-852, with handle_update_and_notify, lines 854-859
recv(ln, q, E) ==
    IF ln.head = <<>> THEN RecvOutcome(E, q, NoCmd, NoVid, "", {}, FALSE)
    ELSE IF ln.head[1] \notin {"R", "S"}
         THEN RecvOutcome(E, q, NoCmd, NoVid, "", {}, FALSE)
    ELSE
    LET typ == ln.head[1]
        allowed == IF typ = "R" THEN r_cmds ELSE s_cmds
        q2 == IF typ = "R" THEN recv_pop(q) ELSE q
        this_cmd == IF typ = "R" THEN recv_this_cmd(q) ELSE NoCmd
        parts == re_split(ln.rest, "")
        Drop == RecvOutcome(E, q2, this_cmd, NoVid, "", {}, FALSE)
    IN
    IF Len(parts) < 2
    THEN RecvOutcome(E, q2, this_cmd, NoVid, "IndexError", {}, FALSE)
    ELSE
    LET cmd_type0 == parts[1]
        vid == parts[2]
        args == SubSeq(parts, 3, Len(parts))
    IN
    IF cmd_type0 \notin allowed THEN Drop
    ELSE IF cmd_type0 = "LOGIN" THEN Drop
    ELSE IF typ = "R" /\ cmd_type0 \in {"STATUS", "ADDSTATUS", "DELSTATUS",
                                        "INVOKE", "GETCUSTOM", "RAMPLOAD",
                                        "GETTEMPERATURE"}
         THEN Drop
    ELSE IF cmd_type0 = "ERROR" THEN Drop
    ELSE IF cmd_type0 \in {"GETBLIND", "TASK"} THEN Drop
    ELSE
    LET cmd_type == strip_get(cmd_type0) IN
    IF cmd_type \notin RegisteredTypes THEN Drop
    ELSE IF ~isdigit(vid) THEN Drop
    ELSE IF int(vid) \notin ids(cmd_type) THEN Drop
    ELSE IF ~recv_forwards(typ, cmd_type) THEN Drop
    ELSE LET o == handle_update(int(vid), args, E) IN
         [RecvOutcome(o.E, q2, this_cmd, o.ret, o.exc, o.rhn, TRUE)
            EXCEPT !.inner = o.inner]

\* handle_update_and_notify, lines 858-859, for each entity in hs (the
\* entities handle_update returned, innermost call first): the ones whose
\* subscriber is called.
subscriber_calls(hs, subs) == SelectSeq(hs, LAMBDA h : h \in subs)

\* The entities the handle_update calls of one _recv returned, in the order
\* in which handle_update_and_notify looks them up in _subscribers.
recv_handled(o) == o.inner \o (IF o.ret # NoVid THEN <<o.ret>> ELSE <<>>)

(***************************************************************************)
(* The initial state: the objects as their constructors leave them.        *)
(***************************************************************************)
\* _RequestHelper.__init__, lines 1058-1061
RHInit ==
    /\ events = <<>>
    /\ evSet = {}
    /\ rhFirst = [t \in Threads |-> FALSE]
    /\ rhEv = [t \in Threads |-> 0]
    /\ nPc = "idle"
    /\ nLocal = <<>>
    /\ nextEv = 0
    /\ round = 0
    /\ rhRound = [t \in Threads |-> 0]
    /\ rhOrd = [t \in Threads |-> 0]
    /\ rhSawEmpty = [t \in Threads |-> FALSE]
    /\ joins = [r \in Rounds |-> 0]
    /\ firsts = [r \in Rounds |-> 0]
    /\ trigs = [r \in Rounds |-> 0]
    /\ intervalTrigs = 0
    /\ lastClosed = [joins |-> 0, trigs |-> 0]
    /\ nSwapped = <<>>
    /\ nDidSet = {}

\* The foreground threads have made no call yet.
ThreadsInit ==
    /\ pc = [t \in Threads |-> "idle"]
    /\ exc = [t \in Threads |-> ""]
    /\ todo = [t \in Threads |-> <<>>]
    /\ retTo = [t \in Threads |-> "idle"]
    /\ connectRet = [t \in Threads |->
                       [returned |-> FALSE, connected |-> FALSE,
                        written |-> <<>>, session |-> 0]]
    /\ levelRet = [t \in Threads |->
                     [returned |-> FALSE, value |-> 0, released |-> FALSE,
                      ev |-> 0, round |-> 0, upto |-> 0, upd |-> 0]]

\* VantageConnection.__init__, lines 97-112: no session, thread not started
ConnInit ==
    /\ connected = FALSE
    /\ telnet = 0
    /\ lock = "free"
    /\ bgPc = "unstarted"
    /\ hsStep = 0
    /\ line = NoLine
    /\ bgExc = ""
    /\ sessions = 0
    /\ peerOpen = FALSE
    /\ wire = <<>>
    /\ written = <<>>
    /\ inbuf = <<>>
    /\ statusSent = 0

\* Keypad.__init__, line 1643, and VantageEntity.__init__, line 1093:
\* _value is None and _extra_info is empty
\* No function was called yet.
NoCall == [fn |-> ""]

NoKeypadValue == [set |-> FALSE, value |-> 0,
                  extra_info |-> [k \in {} |-> ""]]

(***************************************************************************)
(* Vantage.register_id and Vantage._ids                                    *)
(***************************************************************************)
\* The entity objects handed to register_id: id tells the objects apart,
\* vid is obj.vid.  Objects 1 and 2 have the same vid.
RegObjs == {[id |-> 1, vid |-> 1], [id |-> 2, vid |-> 1],
            [id |-> 3, vid |-> 2]}
NoObj == [id |-> 0, vid |-> 0]

\* The command types of the register_id calls (lines 1314-1316, 1551)
RegTypes == {"LOAD", "BTN"}
\* and their second command types: None, or STATUS as Output passes it
RegAux == {None, "STATUS"}

\* _ids is a set of entries [t, vid, obj]: _ids[t][vid] is the object obj.
\* self._ids[t], a dict by vid: its keys
ids_keys(tab, t) == {e.vid : e \in {x \in tab : x.t = t}}

\* self._ids[t][obj.vid] = obj
ids_store(tab, t, obj) ==
    {x \in tab : ~(x.t = t /\ x.vid = obj.vid)}
    \cup {[t |-> t, vid |-> obj.vid, obj |-> obj.id]}

\* register_id, lines 731-737: what it does to _ids and what it raises.
\* The dict whose keys are looked at is the one of cmd_type2 (line 732
\* rebinds ids); _ids[None] is never written, so with cmd_type2 None
\* nothing is found.
register_id(cmd_type, cmd_type2, obj, tab) ==
    IF obj.vid \in ids_keys(tab, cmd_type2)
    THEN [tab |-> tab, exc |-> "VIDExistsError"]
    ELSE LET tab1 == ids_store(tab, cmd_type, obj) IN
         [tab |-> IF cmd_type2 # None THEN ids_store(tab1, cmd_type2, obj)
                  ELSE tab1,
          exc |-> ""]

\* No register_id call was made yet.
NoRegister == [n |-> 0, cmd_type |-> "", cmd_type2 |-> "", obj |-> NoObj,
               exc |-> "", dup |-> FALSE, before |-> {}]

\* Vantage.__init__, line 663, and the entities' constructors
\* (lines 1259, 1303-1305, 1317, 1801)
VantageInit ==
    /\ cmds = <<>>
    /\ nextCmd = 0
    /\ level = [v \in Outputs \cup Shades |->
                  IF v \in Shades THEN 1000 ELSE 0]
    /\ color_temp = [v \in Outputs |-> 27000]
    /\ rgb = [v \in Outputs |-> <<0, 0, 0>>]
    /\ value = [v \in Variables \cup Sensors |-> None]
    /\ btn = [v \in Buttons |-> None]
    /\ kp = [v \in Keypads |-> NoKeypadValue]
    /\ addedstatus = [v \in Outputs |-> FALSE]
    /\ lastMatch = [resp |-> NoCmd, cmd |-> NoCmd]
    /\ fed = 0
    /\ getloads = {}
    /\ subscribers = [v \in {} |-> 0]
    /\ idsTab = {}
    /\ regLast = NoRegister
    /\ newLevel = [t \in Threads |-> 0]
    /\ fedLog = <<>>
    /\ lastRecv = [n |-> 0, line |-> NoLine, before |-> EntState,
                   after |-> EntState, q |-> <<>>, q2 |-> <<>>,
                   subs |-> {}, calls |-> <<>>, handlers |-> <<>>,
                   latest |-> <<>>, ret |-> NoVid, rhn |-> {}, exc |-> "",
                   handled |-> FALSE]
    /\ callLog = <<>>
    /\ varValue = [t \in Threads |-> <<>>]
    /\ lastHandler = [v \in {} |-> 0]
    /\ lastCall = NoCall
    /\ shadeEvents = <<>>

Init == RHInit /\ ThreadsInit /\ ConnInit /\ VantageInit

(***************************************************************************)
(* _RequestHelper                                                          *)
(***************************************************************************)
\* A request() that takes itself for the first whatever the list holds.
request_first_always(evs) == TRUE

\* request(), lines 1068-1069:  if not self.__events: first = True
request_first(evs) == evs = <<>>

\* request(), lines 1065-1070: ev = threading.Event(); then, under the
\* helper's lock, first is computed and ev is appended.  The locked block
\* is one step: no other locked block can run inside it.
request_lock(t) ==
    /\ pc[t] = "idle"
    /\ nextEv < MaxRequests
    /\ nextEv' = nextEv + 1
    /\ rhEv' = [rhEv EXCEPT ![t] = nextEv + 1]
    /\ rhFirst' = [rhFirst EXCEPT ![t] = request_first(events)]
    /\ events' = Append(events, nextEv + 1)
    /\ pc' = [pc EXCEPT ![t] = "locked_done"]
    /\ rhRound' = [rhRound EXCEPT ![t] = round]
    /\ rhOrd' = [rhOrd EXCEPT ![t] = joins[round] + 1]
    /\ rhSawEmpty' = [rhSawEmpty EXCEPT ![t] = (Len(events) = 0)]
    /\ joins' = [joins EXCEPT ![round] = @ + 1]
    /\ firsts' = [firsts EXCEPT ![round] =
                    IF Len(events) = 0 THEN @ + 1 ELSE @]
    /\ UNCHANGED <<exc, todo, retTo, evSet, nPc, nLocal, round, trigs,
                   intervalTrigs, lastClosed, nSwapped, nDidSet>>
    /\ UNCHANGED <<connVars, netVars, entVars, vanVars, histVars, extVars>>

\* A request() that runs its action whatever it found in the list.
request_runs_action_always(t) == TRUE

\* request(), lines 1071-1072:  if first: action()   (outside the lock)
request_runs_action(t) == rhFirst[t]

\* The bookkeeping of one action() call by thread t.
CountTrigger(t) ==
    /\ trigs' = [trigs EXCEPT ![rhRound[t]] = @ + 1]
    /\ intervalTrigs' = intervalTrigs + 1
    /\ UNCHANGED <<nextEv, round, rhRound, rhOrd, rhSawEmpty, joins, firsts,
                   lastClosed, nSwapped, nDidSet>>

\* request(), line 1072, for the helper taken alone: action() is any
\* callable; it runs and returns.
request_action(t) ==
    /\ pc[t] = "locked_done"
    /\ request_runs_action(t)
    /\ CountTrigger(t)
    /\ pc' = [pc EXCEPT ![t] = "acted"]
    /\ UNCHANGED <<exc, todo, retTo, rhState>>
    /\ UNCHANGED <<connVars, netVars, entVars, vanVars, histVars, extVars>>

\* request(), line 1073:  return ev
request_return(t) ==
    /\ \/ pc[t] = "acted"
       \/ pc[t] = "locked_done" /\ ~request_runs_action(t)
    /\ pc' = [pc EXCEPT ![t] = "returned"]
    /\ UNCHANGED <<exc, todo, retTo, rhState, rhHist>>
    /\ UNCHANGED <<connVars, netVars, entVars, vanVars, histVars, extVars>>

\* The caller of request() drops the handle and is free to call again.
request_done(t) ==
    /\ pc[t] = "returned"
    /\ pc' = [pc EXCEPT ![t] = "idle"]
    /\ UNCHANGED <<exc, todo, retTo, rhState, rhHist>>
    /\ UNCHANGED <<connVars, netVars, entVars, vanVars, histVars, extVars>>

\* notify() is called (by any thread, for the helper taken alone).
notify_call ==
    /\ nPc = "idle"
    /\ round < MaxNotifies
    /\ nPc' = "called"
    /\ UNCHANGED <<events, evSet, rhFirst, rhEv, nLocal, rhHist, thrVars>>
    /\ UNCHANGED <<connVars, netVars, entVars, vanVars, histVars, extVars>>

\* A notify() that leaves the waiters in the list.
notify_reset_keeps(evs) == evs

\* notify(), line 1079:  self.__events = []
notify_reset(evs) == <<>>

\* notify(), lines 1077-1079: under the lock, events = self.__events and
\* self.__events = [] (one step, as for request_lock).
notify_swap ==
    /\ nPc = "called"
    /\ nLocal' = events
    /\ events' = notify_reset(events)
    /\ nPc' = "setting"
    /\ round' = round + 1
    /\ lastClosed' = [joins |-> joins[round], trigs |-> intervalTrigs]
    /\ intervalTrigs' = 0
    /\ nSwapped' = events
    /\ nDidSet' = {}
    /\ UNCHANGED <<evSet, rhFirst, rhEv, nextEv, rhRound, rhOrd, rhSawEmpty,
                   joins, firsts, trigs, thrVars>>
    /\ UNCHANGED <<connVars, netVars, entVars, vanVars, histVars, extVars>>

\* notify(), lines 1080-1081:  for ev in events: ev.set()   (one per step)
notify_set ==
    /\ nPc = "setting"
    /\ nLocal # <<>>
    /\ evSet' = evSet \cup {Head(nLocal)}
    /\ nDidSet' = nDidSet \cup {Head(nLocal)}
    /\ nLocal' = Tail(nLocal)
    /\ UNCHANGED <<events, rhFirst, rhEv, nPc, nextEv, round, rhRound, rhOrd,
                   rhSawEmpty, joins, firsts, trigs, intervalTrigs,
                   lastClosed, nSwapped, thrVars>>
    /\ UNCHANGED <<connVars, netVars, entVars, vanVars, histVars, extVars>>

\* notify() returns once the loop is over.
notify_return ==
    /\ nPc = "setting"
    /\ nLocal = <<>>
    /\ nPc' = "idle"
    /\ UNCHANGED <<events, evSet, rhFirst, rhEv, nLocal, rhHist, thrVars>>
    /\ UNCHANGED <<connVars, netVars, entVars, vanVars, histVars, extVars>>

RHNext ==
    \/ \E t \in Threads : request_lock(t)
    \/ \E t \in Threads : request_action(t)
    \/ \E t \in Threads : request_return(t)
    \/ \E t \in Threads : request_done(t)
    \/ notify_call
    \/ notify_swap
    \/ notify_set
    \/ notify_return

\* The helper under concurrent request() and notify() calls.
SpecRH == Init /\ [][RHNext]_vars

(***************************************************************************)
(* The transport: telnetlib over one TCP session                           *)
(***************************************************************************)
\* Telnet.write on the current session: the outcomes the socket can give.
\* With the controller's end open the line goes out; once the controller
\* closed its end, the write is lost or raises BrokenPipeError.
WriteOutcomes == IF peerOpen THEN {"sent"} ELSE {"lost", "BrokenPipeError"}

\* The session after a write with outcome w of command c.
Written(c, w) ==
    /\ written' = IF w \in {"sent", "lost"} THEN Append(written, c)
                  ELSE written
    /\ wire' = IF w = "sent" THEN Append(wire, c) ELSE wire

\* A notify_all() that wakes nobody.
notify_all_none(p) == p

\* Condition.notify_all() on _connect_cond: every thread waiting in
\* connect() wakes up and has to take the lock again.
notify_all(p) ==
    [t \in Threads |-> IF p[t] = "connect_asleep" THEN "connect_wait"
                       ELSE p[t]]

(***************************************************************************)
(* VantageConnection: the thread (run) and the login procedure             *)
(***************************************************************************)
\* A thread that never reports itself alive.
is_alive_never == FALSE

\* Thread.is_alive(): started and run() not ended
is_alive == bgPc \notin {"unstarted", "dead"}

\* An exception leaves run(): the thread ends; a  with self._lock  block it
\* was in releases the lock on the way out.
BgDies(x) ==
    /\ bgPc' = "dead"
    /\ bgExc' = x
    /\ lock' = "free"

\* _maybe_reconnect, lines 176-177: the lock is taken, and with a session
\* already connected nothing is done.
maybe_reconnect ==
    /\ bgPc = "maybe_reconnect"
    /\ lock = "free"
    /\ IF connected
       THEN bgPc' = "read" /\ lock' = "free"
       ELSE bgPc' = "open" /\ lock' = "bg"
    /\ UNCHANGED <<connected, telnet, hsStep, line, bgExc>>
    /\ UNCHANGED <<thrVars, rhState, rhHist, netVars, entVars, vanVars,
                   histVars, extVars>>

\* _do_login_locked, lines 148-149: telnetlib.Telnet(host, port) succeeds
do_login_open ==
    /\ bgPc = "open"
    /\ sessions < MaxSessions
    /\ sessions' = sessions + 1
    /\ telnet' = sessions + 1
    /\ peerOpen' = TRUE
    /\ wire' = <<>>
    /\ written' = <<>>
    /\ inbuf' = <<>>
    /\ hsStep' = 1
    /\ bgPc' = "login"
    /\ UNCHANGED <<connected, lock, line, bgExc, statusSent>>
    /\ UNCHANGED <<thrVars, rhState, rhHist, entVars, vanVars, histVars, extVars>>

\* _do_login_locked, lines 150-156: the connection is refused; the thread
\* sleeps 3 seconds (holding the lock) and tries again.
do_login_open_fails ==
    /\ bgPc = "open"
    /\ bgPc' = "sleep"
    /\ UNCHANGED <<connected, telnet, lock, hsStep, line, bgExc>>
    /\ UNCHANGED <<thrVars, rhState, rhHist, netVars, entVars, vanVars,
                   histVars, extVars>>

do_login_retry ==
    /\ bgPc = "sleep"
    /\ bgPc' = "open"
    /\ UNCHANGED <<connected, telnet, lock, hsStep, line, bgExc>>
    /\ UNCHANGED <<thrVars, rhState, rhHist, netVars, entVars, vanVars,
                   histVars, extVars>>

\* A login procedure that returns before its last write.
LoginStepsShort == 2 * Len(LoginCmds) - 3

\* The steps of _do_login_locked after the session is open, lines 157-165:
\* odd steps write LoginCmds[(hsStep + 1) \div 2], even steps read a line.
LoginSteps == 2 * Len(LoginCmds) - 1

\* _do_login_locked, lines 157, 159, 161, 163, 165: a line is written.  A
\* BrokenPipeError is logged and raised again (lines 132-134); nothing
\* catches it before it leaves run().
do_login_write ==
    /\ bgPc = "login"
    /\ hsStep <= LoginSteps
    /\ hsStep % 2 = 1
    /\ \E w \in WriteOutcomes :
         IF w = "BrokenPipeError"
         THEN /\ BgDies(w)
              /\ UNCHANGED <<hsStep, wire, written>>
         ELSE /\ Written(LoginCmds[(hsStep + 1) \div 2], w)
              /\ hsStep' = hsStep + 1
              /\ UNCHANGED <<bgPc, bgExc, lock>>
    /\ UNCHANGED <<connected, telnet, line>>
    /\ UNCHANGED <<sessions, peerOpen, inbuf, statusSent>>
    /\ UNCHANGED <<thrVars, rhState, rhHist, entVars, vanVars, histVars, extVars>>

\* _do_login_locked, lines 158, 160, 162, 164: read_until(b'\r\n') takes
\* the next line, whatever it is; at end of stream it raises EOFError,
\* which nothing catches before it leaves run().
do_login_read ==
    /\ bgPc = "login"
    /\ hsStep <= LoginSteps
    /\ hsStep % 2 = 0
    /\ \/ /\ inbuf # <<>>
          /\ inbuf' = Tail(inbuf)
          /\ hsStep' = hsStep + 1
          /\ UNCHANGED <<bgPc, bgExc, lock>>
       \/ /\ inbuf = <<>>
          /\ ~peerOpen
          /\ BgDies("EOFError")
          /\ UNCHANGED <<inbuf, hsStep>>
    /\ UNCHANGED <<connected, telnet, line>>
    /\ UNCHANGED <<sessions, peerOpen, wire, written, statusSent>>
    /\ UNCHANGED <<thrVars, rhState, rhHist, entVars, vanVars, histVars, extVars>>

\* _maybe_reconnect, lines 180-181, once _do_login_locked returned:
\* self._connected = True, notify_all(), and the lock is released.
maybe_reconnect_connected ==
    /\ bgPc = "login"
    /\ hsStep > LoginSteps
    /\ connected' = TRUE
    /\ pc' = notify_all(pc)
    /\ lock' = "free"
    /\ bgPc' = "read"
    /\ UNCHANGED <<telnet, hsStep, line, bgExc>>
    /\ UNCHANGED <<exc, todo, retTo>>
    /\ UNCHANGED <<rhState, rhHist, netVars, entVars, vanVars, histVars, extVars>>

\* A read_until that hands out the newest buffered line.
read_until_newest(buf) ==
    [line |-> buf[Len(buf)], rest |-> SubSeq(buf, 1, Len(buf) - 1)]

\* telnetlib's read_until(b"\n"), line 190: the bytes up to the first
\* line end that arrived, in the order they arrived; the rest stays
\* buffered.
read_until(buf) == [line |-> Head(buf), rest |-> Tail(buf)]

\* run, line 190: read_until(b"\n") returns a line
run_read ==
    /\ bgPc = "read"
    /\ inbuf # <<>>
    /\ line' = read_until(inbuf).line
    /\ inbuf' = read_until(inbuf).rest
    /\ bgPc' = "recv"
    /\ UNCHANGED <<connected, telnet, lock, hsStep, bgExc>>
    /\ UNCHANGED <<sessions, peerOpen, wire, written, statusSent>>
    /\ UNCHANGED <<thrVars, rhState, rhHist, entVars, vanVars, histVars, extVars>>

\* run, lines 191-200: read_until raises EOFError (or BrokenPipeError) at
\* the end of the stream; the thread goes on to _disconnect_locked.
run_read_eof ==
    /\ bgPc = "read"
    /\ inbuf = <<>>
    /\ ~peerOpen
    /\ bgPc' = "disconnect"
    /\ UNCHANGED <<connected, telnet, lock, hsStep, line, bgExc>>
    /\ UNCHANGED <<thrVars, rhState, rhHist, netVars, entVars, vanVars,
                   histVars, extVars>>

\* _disconnect_locked, line 170: the waiters of connect() are woken
disconnect_wakes(p) == notify_all(p)

\* run, lines 193-195 and 198-200, with _disconnect_locked, lines 168-172:
\* under the lock, _connected = False, notify_all(), _telnet = None; then
\*  continue  takes the thread back to _maybe_reconnect.
disconnect_locked ==
    /\ bgPc = "disconnect"
    /\ lock = "free"
    /\ connected' = FALSE
    /\ pc' = disconnect_wakes(pc)
    /\ telnet' = 0
    /\ bgPc' = "maybe_reconnect"
    /\ UNCHANGED <<lock, hsStep, line, bgExc>>
    /\ UNCHANGED <<exc, todo, retTo>>
    /\ UNCHANGED <<rhState, rhHist, netVars, entVars, vanVars, histVars, extVars>>

\* run, line 201: self._recv_cb(line.decode('ascii').rstrip()).  _recv runs
\* up to the notify() of the helper of QueryVid, if it calls it; an
\* exception that leaves _recv leaves run().
run_recv ==
    /\ bgPc = "recv"
    /\ LET o == recv(decode_rstrip(line), cmds, EntState)
           calls == subscriber_calls(recv_handled(o), DOMAIN subscribers)
       IN
       /\ cmds' = o.cmds
       /\ level' = o.E.level
       /\ color_temp' = o.E.color_temp
       /\ rgb' = o.E.rgb
       /\ value' = o.E.value
       /\ btn' = o.E.btn
       /\ kp' = o.E.kp
       /\ lastRecv' = [n |-> lastRecv.n + 1, line |-> line,
                       before |-> EntState, after |-> o.E, q |-> cmds,
                       q2 |-> o.cmds, subs |-> DOMAIN subscribers,
                       calls |-> calls,
                       handlers |-> [i \in 1..Len(calls) |->
                                       subscribers[calls[i]]],
                       latest |-> [i \in 1..Len(calls) |->
                                     lastHandler[calls[i]]],
                       ret |-> o.ret,
                       rhn |-> o.rhn, exc |-> o.exc, handled |-> o.handled]
       /\ callLog' = callLog \o
                       [i \in 1..Len(calls) |->
                          [vid |-> calls[i], n |-> lastRecv.n + 1]]
       /\ shadeEvents' = IF ShadeVid \in o.rhn THEN <<>> ELSE shadeEvents
       /\ lastMatch' = IF o.this_cmd # NoCmd
                       THEN [resp |-> line.re, cmd |-> o.this_cmd]
                       ELSE lastMatch
       /\ IF o.exc # ""
          THEN BgDies(o.exc) /\ UNCHANGED nPc
          ELSE /\ UNCHANGED <<bgExc, lock>>
               /\ IF QueryVid \in o.rhn
                  THEN bgPc' = "in_notify" /\ nPc' = "called"
                  ELSE bgPc' = "maybe_reconnect" /\ UNCHANGED nPc
    /\ UNCHANGED <<connected, telnet, hsStep, line>>
    /\ UNCHANGED <<events, evSet, rhFirst, rhEv, nLocal>>
    /\ UNCHANGED <<nextCmd, addedstatus, connectRet, levelRet, fed, getloads>>
    /\ UNCHANGED <<subscribers, idsTab, regLast, newLevel, fedLog>>
    /\ UNCHANGED <<varValue, lastHandler, lastCall>>
    /\ UNCHANGED <<thrVars, rhHist, netVars>>

\* handle_update and _recv return after notify(); run loops.
run_recv_return ==
    /\ bgPc = "in_notify"
    /\ nPc = "idle"
    /\ bgPc' = "maybe_reconnect"
    /\ UNCHANGED <<connected, telnet, lock, hsStep, line, bgExc>>
    /\ UNCHANGED <<thrVars, rhState, rhHist, netVars, entVars, vanVars,
                   histVars, extVars>>

BgCore ==
    \/ maybe_reconnect
    \/ do_login_open
    \/ do_login_open_fails
    \/ do_login_retry
    \/ do_login_write
    \/ do_login_read
    \/ maybe_reconnect_connected
    \/ run_read
    \/ run_read_eof
    \/ disconnect_locked
    \/ run_recv

\* ... and the notify() that handle_update calls on the helper of QueryVid
BgNotify ==
    \/ run_recv_return
    \/ notify_swap
    \/ notify_set
    \/ notify_return

(***************************************************************************)
(* The controller                                                          *)
(***************************************************************************)
\* The controller answers the oldest command it has not answered yet.
ctrl_answer ==
    /\ peerOpen
    /\ wire # <<>>
    /\ \E l \in ResponseLines(Head(wire)) : inbuf' = Append(inbuf, l)
    /\ wire' = Tail(wire)
    /\ UNCHANGED <<sessions, peerOpen, written, statusSent>>
    /\ UNCHANGED <<thrVars, rhState, rhHist, connVars, entVars, vanVars,
                   histVars, extVars>>

\* The controller answers the oldest command it has not answered yet with
\* an error.
ctrl_error ==
    /\ peerOpen
    /\ wire # <<>>
    /\ inbuf' = Append(inbuf, ErrorLine(Head(wire)))
    /\ wire' = Tail(wire)
    /\ UNCHANGED <<sessions, peerOpen, written, statusSent>>
    /\ UNCHANGED <<thrVars, rhState, rhHist, connVars, entVars, vanVars,
                   histVars, extVars>>

\* The controller has taken in the STATUS LOAD subscription.
SubscribedLoad ==
    /\ Cmd("STATUS", "LOAD", 0) \in SeqToSet(written)
    /\ Cmd("STATUS", "LOAD", 0) \notin SeqToSet(wire)

\* str(vid), line 881: the digits of a vid
str(v) == CHOOSE tok \in DOMAIN FloatTable : isdigit(tok) /\ int(tok) = v

\* The controller pushes the status of the load QueryVid.
ctrl_status ==
    /\ peerOpen
    /\ SubscribedLoad
    /\ statusSent < MaxStatus
    /\ statusSent' = statusSent + 1
    /\ \E val \in LoadValues :
         inbuf' = Append(inbuf, CtrlLine(<<"S", ":">>,
                            <<"LOAD", " ", str(QueryVid), " ", val>>, NoCmd))
    /\ UNCHANGED <<sessions, peerOpen, wire, written>>
    /\ UNCHANGED <<thrVars, rhState, rhHist, connVars, entVars, vanVars,
                   histVars, extVars>>

\* The controller (or the network) closes the session.
ctrl_close ==
    /\ peerOpen
    /\ peerOpen' = FALSE
    /\ UNCHANGED <<sessions, wire, written, inbuf, statusSent>>
    /\ UNCHANGED <<thrVars, rhState, rhHist, connVars, entVars, vanVars,
                   histVars, extVars>>

(***************************************************************************)
(* VantageConnection.connect, called by a foreground thread                *)
(***************************************************************************)
\* connect, lines 116-117
connect_check(t) ==
    /\ pc[t] = "idle"
    /\ IF connected \/ is_alive
       THEN /\ pc' = [pc EXCEPT ![t] = "raised"]
            /\ exc' = [exc EXCEPT ![t] = "ConnectionExistsError"]
       ELSE /\ pc' = [pc EXCEPT ![t] = "connect_start"]
            /\ UNCHANGED exc
    /\ UNCHANGED <<todo, retTo>>
    /\ UNCHANGED <<rhState, rhHist, connVars, netVars, entVars, vanVars,
                   histVars, extVars>>

\* connect, line 121: self.start(); a thread can be started once only
\* (RuntimeError otherwise).
connect_start(t) ==
    /\ pc[t] = "connect_start"
    /\ IF bgPc = "unstarted"
       THEN /\ bgPc' = "maybe_reconnect"
            /\ pc' = [pc EXCEPT ![t] = "connect_wait"]
            /\ UNCHANGED exc
       ELSE /\ pc' = [pc EXCEPT ![t] = "raised"]
            /\ exc' = [exc EXCEPT ![t] = "RuntimeError"]
            /\ UNCHANGED bgPc
    /\ UNCHANGED <<connected, telnet, lock, hsStep, line, bgExc>>
    /\ UNCHANGED <<todo, retTo>>
    /\ UNCHANGED <<rhState, rhHist, netVars, entVars, vanVars, histVars, extVars>>

\* A connect() that returns at any wake-up, without the predicate.
connect_wait_pred_any == TRUE

\* connect, line 123: the predicate of wait_for
connect_wait_pred == connected

\* connect, lines 122-123: with the lock held (taken on entry, or taken back
\* after a wake-up) wait_for evaluates the predicate: it returns if it
\* holds, else it releases the lock and waits for a notify_all().
connect_wait(t) ==
    /\ pc[t] = "connect_wait"
    /\ lock = "free"
    /\ IF connect_wait_pred
       THEN /\ pc' = [pc EXCEPT ![t] = "idle"]
            /\ connectRet' = [connectRet EXCEPT ![t] =
                                [returned |-> TRUE,
                                 connected |-> connected,
                                 written |-> written,
                                 session |-> sessions]]
       ELSE /\ pc' = [pc EXCEPT ![t] = "connect_asleep"]
            /\ UNCHANGED connectRet
    /\ UNCHANGED <<exc, todo, retTo, lastMatch, levelRet, fed, getloads>>
    /\ UNCHANGED extVars
    /\ UNCHANGED <<rhState, rhHist, connVars, netVars, entVars, vanVars>>

ConnectNext ==
    \/ \E t \in Threads : connect_check(t)
    \/ \E t \in Threads : connect_start(t)
    \/ \E t \in Threads : connect_wait(t)

(***************************************************************************)
(* Vantage.send_cmd and VantageConnection.send_ascii_nl                    *)
(***************************************************************************)
\* The command a level setter sends (Output.level setter, line 1433).
DirectCmd == Cmd("RAMPLOAD", str(QueryVid), 0)

\* A foreground thread calls Vantage.send / send_cmd with one command.
send_call(t) ==
    /\ pc[t] = "idle"
    /\ nextCmd < MaxSends
    /\ todo' = [todo EXCEPT ![t] = <<DirectCmd>>]
    /\ retTo' = [retTo EXCEPT ![t] = "idle"]
    /\ pc' = [pc EXCEPT ![t] = "send_append"]
    /\ UNCHANGED exc
    /\ UNCHANGED <<rhState, rhHist, connVars, netVars, entVars, vanVars,
                   histVars, extVars>>

\* send_cmd, line 873: self._cmds.append(cmd)   (no lock is held)
send_cmd_append(t) ==
    /\ pc[t] = "send_append"
    /\ LET c == [Head(todo[t]) EXCEPT !.n = nextCmd + 1] IN
       /\ cmds' = Append(cmds, c)
       /\ todo' = [todo EXCEPT ![t] = <<c>> \o Tail(todo[t])]
    /\ nextCmd' = nextCmd + 1
    /\ pc' = [pc EXCEPT ![t] = "send_write"]
    /\ UNCHANGED <<exc, retTo, addedstatus>>
    /\ UNCHANGED <<rhState, rhHist, connVars, netVars, entVars, histVars, extVars>>

\* _send_ascii_nl_locked, line 131: self._telnet.write(...).  With
\* self._telnet None this raises AttributeError.
send_outcomes == IF telnet = 0 THEN {"AttributeError"} ELSE WriteOutcomes

\* send_ascii_nl, lines 140-141, with _send_ascii_nl_locked, lines 130-134:
\* the lock is taken, the line is written, the lock is released; a
\* BrokenPipeError is logged and raised again.  send_cmd and send return to
\* their caller: __do_query_level (lines 1394-1398), which sets
\* _addedstatus after its ADDSTATUS and goes on to its next command, or the
\* foreground call.
send_ascii_nl(t) ==
    /\ pc[t] = "send_write"
    /\ lock = "free"
    /\ \E w \in send_outcomes :
         IF w \in {"sent", "lost"}
         THEN /\ Written(Head(todo[t]), w)
              /\ todo' = [todo EXCEPT ![t] = Tail(todo[t])]
              /\ addedstatus' = IF Head(todo[t]).op = "ADDSTATUS"
                                THEN [addedstatus EXCEPT ![QueryVid] = TRUE]
                                ELSE addedstatus
              /\ pc' = [pc EXCEPT ![t] = IF Tail(todo[t]) = <<>>
                                         THEN retTo[t] ELSE "send_append"]
              /\ getloads' = IF Head(todo[t]).op = "GETLOAD"
                             THEN getloads \cup
                                    {[ev |-> rhEv[t], round |-> rhRound[t],
                                      n |-> Head(todo[t]).n]}
                             ELSE getloads
              /\ UNCHANGED exc
         ELSE /\ pc' = [pc EXCEPT ![t] = "raised"]
              /\ exc' = [exc EXCEPT ![t] = w]
              /\ todo' = [todo EXCEPT ![t] = <<>>]
              /\ UNCHANGED <<wire, written, addedstatus, getloads>>
    /\ UNCHANGED <<retTo, cmds, nextCmd>>
    /\ UNCHANGED <<sessions, peerOpen, inbuf, statusSent>>
    /\ UNCHANGED <<connectRet, lastMatch, levelRet, fed>>
    /\ UNCHANGED extVars
    /\ UNCHANGED <<rhState, rhHist, connVars, entVars>>

SendNext ==
    \/ \E t \in Threads : send_call(t)
    \/ \E t \in Threads : send_cmd_append(t)
    \/ \E t \in Threads : send_ascii_nl(t)

(***************************************************************************)
(* Output.level (getter) on the load QueryVid                              *)
(***************************************************************************)
\* Output.support_color, lines 1411-1414
support_color(v) == Entities[v].dmx_color

\* Output.__do_query_level, lines 1391-1398: the commands it sends
do_query_level_cmds(v) ==
    (IF support_color(v) /\ ~addedstatus[v]
     THEN <<Cmd("ADDSTATUS", str(v), 0)>> ELSE <<>>)
    \o <<Cmd("GETLOAD", str(v), 0)>>

\* Output.level, line 1419: self._query_waiters.request(...) is called.
\* The threads are interchangeable: the first read is the one of thread 1.
level_get(t) ==
    /\ nextEv < MaxReads
    /\ nextEv = 0 => t = 1
    /\ request_lock(t)

\* request(), line 1072, from Output.level (line 1419): action() is
\* __do_query_level, which goes on to send its commands.
do_query_level(t) ==
    /\ pc[t] = "locked_done"
    /\ request_runs_action(t)
    /\ CountTrigger(t)
    /\ todo' = [todo EXCEPT ![t] = do_query_level_cmds(QueryVid)]
    /\ retTo' = [retTo EXCEPT ![t] = "acted"]
    /\ pc' = [pc EXCEPT ![t] = "send_append"]
    /\ UNCHANGED <<exc, rhState>>
    /\ UNCHANGED <<connVars, netVars, entVars, vanVars, histVars, extVars>>

\* The updates of QueryVid applied so far: each one calls notify() (lines
\* 1362 and 1373), which makes one swap.
LevelUpdates == round + (IF nPc = "called" THEN 1 ELSE 0)

\* Output.level, lines 1420-1421: ev.wait(self._wait_seconds) ends when the
\* event is set or when the 0.03 seconds are over, whichever comes first;
\* then self._level is returned.
level_return(t) ==
    /\ pc[t] = "returned"
    /\ levelRet' = [levelRet EXCEPT ![t] =
                      [returned |-> TRUE, value |-> level[QueryVid],
                       released |-> rhEv[t] \in evSet,
                       ev |-> rhEv[t], round |-> rhRound[t],
                       upto |-> nextEv, upd |-> LevelUpdates]]
    /\ pc' = [pc EXCEPT ![t] = "idle"]
    /\ UNCHANGED <<exc, todo, retTo, connectRet, lastMatch, fed, getloads>>
    /\ UNCHANGED extVars
    /\ UNCHANGED <<rhState, rhHist, connVars, netVars, entVars, vanVars>>

(***************************************************************************)
(* The registry, the subscribers and the setters                           *)
(***************************************************************************)
\* A constructor calls register_id (lines 1260, 1314, 1551, ...).  regLast
\* keeps the call: its arguments, whether obj.vid was already registered
\* under cmd_type, _ids before the call and the exception raised.
register_id_call ==
    /\ regLast.n < MaxRegisters
    /\ \E cmd_type \in RegTypes, cmd_type2 \in RegAux, obj \in RegObjs :
         LET o == register_id(cmd_type, cmd_type2, obj, idsTab) IN
         /\ idsTab' = o.tab
         /\ regLast' = [n |-> regLast.n + 1, cmd_type |-> cmd_type,
                        cmd_type2 |-> cmd_type2, obj |-> obj,
                        exc |-> o.exc,
                        dup |-> obj.vid \in ids_keys(idsTab, cmd_type),
                        before |-> idsTab]
    /\ UNCHANGED <<subscribers, newLevel, fedLog, lastRecv, callLog>>
    /\ UNCHANGED <<varValue, lastHandler, lastCall, shadeEvents>>
    /\ UNCHANGED <<thrVars, rhState, rhHist, connVars, netVars, entVars,
                   vanVars, histVars>>

\* The entities the application subscribes to in the model.
Subscribable == {1, 3, 7, 8, 9, 10}

\* The handlers the application passes to subscribe; the first subscribe
\* for an entity passes FirstHandler.
Handlers == {1, 2}
FirstHandler == 1

\* A subscribe that keeps the handler an entity already has.
subscribers_setdefault(subs, v, h) ==
    IF v \in DOMAIN subs THEN subs ELSE (v :> h) @@ subs

\* subscribe, line 701: self._subscribers[obj] = handler
subscribers_store(subs, v, h) == (v :> h) @@ subs

\* The application calls subscribe(obj, handler) for an entity of S with
\* a handler of H, at most MaxSubscribes entities being subscribed to; a
\* call with the handler the entity already has changes nothing, and the
\* first call for an entity passes FirstHandler.
subscribe_call(S, H) ==
    /\ \E v \in S, h \in H :
         /\ v \in DOMAIN subscribers => subscribers[v] # h
         /\ v \notin DOMAIN subscribers =>
               /\ Cardinality(DOMAIN subscribers) < MaxSubscribes
               /\ h = FirstHandler
         /\ subscribers' = subscribers_store(subscribers, v, h)
         /\ lastHandler' = (v :> h) @@ lastHandler
    /\ UNCHANGED <<idsTab, regLast, newLevel, fedLog, lastRecv, callLog>>
    /\ UNCHANGED <<varValue, lastCall, shadeEvents>>
    /\ UNCHANGED <<thrVars, rhState, rhHist, connVars, netVars, entVars,
                   vanVars, histVars>>

\* The application subscribes to entities, once to each.
subscribe == subscribe_call(Subscribable, {1})

\* The application subscribes to the load, the shade and the variable,
\* and replaces handlers.
StatusSubscribable == {1, 5, 6}
subscribe_any == subscribe_call(StatusSubscribable, Handlers)

\* The levels the application sets (in tenths)
SetLevels == {0, 1000}

\* Output.level setter, lines 1424-1433, on the output QueryVid: with the
\* cached level equal to new_level it returns at once (line 1427) and
\* nothing changes; otherwise it calls send("RAMPLOAD", vid, new_level,
\* ramp_sec).
level_set_call(t) ==
    /\ pc[t] = "idle"
    /\ nextCmd < MaxSends
    /\ \E new_level \in SetLevels :
         /\ level[QueryVid] # new_level
         /\ newLevel' = [newLevel EXCEPT ![t] = new_level]
    /\ todo' = [todo EXCEPT ![t] = <<DirectCmd>>]
    /\ retTo' = [retTo EXCEPT ![t] = "set_store"]
    /\ pc' = [pc EXCEPT ![t] = "send_append"]
    /\ UNCHANGED exc
    /\ UNCHANGED <<subscribers, idsTab, regLast, fedLog, lastRecv, callLog>>
    /\ UNCHANGED <<varValue, lastHandler, lastCall, shadeEvents>>
    /\ UNCHANGED <<rhState, rhHist, connVars, netVars, entVars, vanVars,
                   histVars>>

\* Output.level setter, line 1434, after send() returned:
\* self._level = new_level
level_set_store(t) ==
    /\ pc[t] = "set_store"
    /\ level' = [level EXCEPT ![QueryVid] = newLevel[t]]
    /\ pc' = [pc EXCEPT ![t] = "idle"]
    /\ UNCHANGED <<exc, todo, retTo>>
    /\ UNCHANGED <<color_temp, rgb, value, btn, kp>>
    /\ UNCHANGED <<rhState, rhHist, connVars, netVars, vanVars, histVars,
                   extVars>>

SetNext ==
    \/ \E t \in Threads : level_set_call(t)
    \/ \E t \in Threads : send_cmd_append(t)
    \/ \E t \in Threads : send_ascii_nl(t)
    \/ \E t \in Threads : level_set_store(t)

(***************************************************************************)
(* Vantage.set_variable_vid                                                *)
(***************************************************************************)
\* The characters of the text values of the model: a letter, a digit, a
\* double quote and a newline.  A text value is a sequence of characters.
TextChars == {"a", "1", "\"", "\n"}
TextValues == UNION {[1..n -> TextChars] : n \in 1..MaxTextLen}

\* re.compile(r'^\d+$').match(value), lines 889-890: digits up to the end
\* of the string, or up to a newline that ends the string ($ matches
\* there too).
num_match(new_value) ==
    LET body == IF new_value # <<>> /\ new_value[Len(new_value)] = "\n"
                THEN SubSeq(new_value, 1, Len(new_value) - 1) ELSE new_value IN
    /\ body # <<>>
    /\ \A i \in 1..Len(body) : body[i] = "1"

\* A test that finds a quote or a newline anywhere in the value.
p_search(new_value) == \E i \in 1..Len(new_value) : new_value[i] \in {"\"", "\n", "\r"}

\* re.compile(r'["\n\r]').match(value), lines 893-894: match() looks at
\* the start of the string only.
p_match(new_value) == new_value # <<>> /\ new_value[1] \in {"\"", "\n", "\r"}

\* The variable whose value the application sets.
VarVid == 6

\* set_variable_vid(vid, value) with a str value (new_value here), lines 886-898: the
\* exception it raises ("" if none) and the command it passes to send_cmd:
\* the value as it is for a number, between double quotes otherwise.
set_variable_vid(new_value) ==
    IF num_match(new_value)
    THEN [exc |-> "", cmd |-> [op |-> "VARIABLE", arg |-> str(VarVid),
                               n |-> 0, text |-> new_value]]
    ELSE IF p_match(new_value)
    THEN [exc |-> "Exception", cmd |-> NoCmd]
    ELSE [exc |-> "", cmd |-> [op |-> "VARIABLE", arg |-> str(VarVid),
                               n |-> 0,
                               text |-> <<"\"">> \o new_value \o <<"\"">>]]

\* A foreground thread calls set_variable_vid with a text value.
set_variable_call(t) ==
    /\ pc[t] = "idle"
    /\ nextCmd < MaxSends
    /\ \E new_value \in TextValues :
         LET o == set_variable_vid(new_value) IN
         /\ varValue' = [varValue EXCEPT ![t] = new_value]
         /\ IF o.exc # ""
            THEN /\ pc' = [pc EXCEPT ![t] = "raised"]
                 /\ exc' = [exc EXCEPT ![t] = o.exc]
                 /\ UNCHANGED <<todo, retTo>>
            ELSE /\ pc' = [pc EXCEPT ![t] = "send_append"]
                 /\ todo' = [todo EXCEPT ![t] = <<o.cmd>>]
                 /\ retTo' = [retTo EXCEPT ![t] = "idle"]
                 /\ UNCHANGED exc
    /\ UNCHANGED <<subscribers, idsTab, regLast, newLevel, fedLog, lastRecv,
                   callLog, lastHandler, lastCall, shadeEvents>>
    /\ UNCHANGED <<rhState, rhHist, connVars, netVars, entVars, vanVars,
                   histVars>>

VarNext ==
    \/ \E t \in Threads : set_variable_call(t)
    \/ \E t \in Threads : send_cmd_append(t)
    \/ \E t \in Threads : send_ascii_nl(t)

\* The loader's constructors registering entities in an empty _ids.
SpecRegister == Init /\ [][register_id_call]_vars

(***************************************************************************)
(* The controller feeding the dispatcher (SpecDispatch)                    *)
(***************************************************************************)
\* An unsolicited line S:<rest>
StatusLine(r) == CtrlLine(<<"S", ":">>, r, NoCmd)

\* The lines the controller feeds: well-formed status lines of every
\* entity class, lines whose argument shape deviates, a line with trailing
\* white space, an empty line, a line with an unknown first character,
\* responses nobody asked for, button events, sensor values as status and as
\* response lines, lines of an unknown command type, of an unregistered
\* vid, of a vid registered under another command type, and an error
\* response.
FeedLines ==
    { StatusLine(<<"LOAD", " ", "1", " ", "100">>),
      StatusLine(<<"LOAD", " ", "1", " ", "45.5", " ">>),
      StatusLine(<<"LOAD", " ", "2", " ", "100">>),
      StatusLine(<<"LOAD", " ", "3", " ", "100">>),
      StatusLine(<<"BLIND", " ", "5", " ", "POS", " ", "33">>),
      StatusLine(<<"BLIND", " ", "5", " ", "STOP">>),
      StatusLine(<<"VARIABLE", " ", "6", " ", "33">>),
      StatusLine(<<"STATUS", " ", "4", " ", "RGBLoad.GetRGB", " ", "250",
                   " ", "2">>),
      StatusLine(<<"LOAD">>),
      StatusLine(<<"LOAD", " ", "1">>),
      StatusLine(<<"LOAD", " ", "1", " ", "abc">>),
      StatusLine(<<"BLIND", " ", "5", " ", "POS">>),
      StatusLine(<<"LOAD", " ", "x1", " ", "100">>),
      CtrlLine(<<"R", ":">>, <<"GETLOAD", " ", "1", " ", "100">>, NoCmd),
      CtrlLine(<<"X", ":">>, <<"LOAD", " ", "1", " ", "100">>, NoCmd),
      CtrlLine(<<>>, <<>>, NoCmd),
      StatusLine(<<"BTN", " ", "8", " ", "PRESS">>),
      StatusLine(<<"BTN", " ", "8">>),
      StatusLine(<<"BTN", " ", "9", " ", "PRESS">>),
      StatusLine(<<"BTN", " ", "9", " ", "RELEASE">>),
      StatusLine(<<"BTN", " ", "9", " ", "HOLD">>),
      StatusLine(<<"LIGHT", " ", "10", " ", "33">>),
      StatusLine(<<"POWER", " ", "11", " ", "33">>),
      CtrlLine(<<"R", ":">>, <<"GETLIGHT", " ", "10", " ", "33">>, NoCmd),
      CtrlLine(<<"R", ":">>, <<"GETPOWER", " ", "11", " ", "45.5">>, NoCmd),
      CtrlLine(<<"R", ":">>, <<"GETLOAD", " ", "2", " ", "100">>, NoCmd),
      StatusLine(<<"FOO", " ", "1", " ", "100">>),
      StatusLine(<<"FOO">>),
      StatusLine(<<"LOAD", " ", "33", " ", "100">>),
      StatusLine(<<"BTN", " ", "1", " ", "PRESS">>),
      CtrlLine(<<"R", ":">>, <<"ERROR", " ", "Some", " ", "failure">>,
               NoCmd) }

\* The controller sends one more line, one of lines.
feed(lines) ==
    /\ peerOpen
    /\ fed < MaxLines
    /\ fed' = fed + 1
    /\ \E l \in lines :
         /\ inbuf' = Append(inbuf, l)
         /\ fedLog' = Append(fedLog, l)
    /\ UNCHANGED <<sessions, peerOpen, wire, written, statusSent>>
    /\ UNCHANGED <<connectRet, lastMatch, levelRet, getloads>>
    /\ UNCHANGED <<subscribers, idsTab, regLast, newLevel, lastRecv, callLog>>
    /\ UNCHANGED <<varValue, lastHandler, lastCall, shadeEvents>>
    /\ UNCHANGED <<thrVars, rhState, rhHist, connVars, entVars, vanVars>>

ctrl_feed == feed(FeedLines)

\* Response line R:<rest> that answers no command of the model
ResponseLine(r) == CtrlLine(<<"R", ":">>, r, NoCmd)

\* More lines the controller feeds: every form of a shade update, levels
\* outside 0..100, and responses of every class.
StatusLines ==
    { StatusLine(<<"BLIND", " ", "5", " ", "OPEN">>),
      StatusLine(<<"BLIND", " ", "5", " ", "CLOSE">>),
      StatusLine(<<"BLIND", " ", "5", " ", "STOP">>),
      StatusLine(<<"BLIND", " ", "5", " ", "POS", " ", "33">>),
      StatusLine(<<"BLIND", " ", "5", " ", "45.5">>),
      StatusLine(<<"LOAD", " ", "1", " ", "100">>),
      StatusLine(<<"LOAD", " ", "1", " ", "250">>),
      StatusLine(<<"LOAD", " ", "1", " ", "-5">>),
      StatusLine(<<"VARIABLE", " ", "6", " ", "33">>),
      ResponseLine(<<"GETLOAD", " ", "1", " ", "100">>),
      ResponseLine(<<"LOAD", " ", "1", " ", "33">>),
      ResponseLine(<<"VARIABLE", " ", "6", " ", "33">>),
      ResponseLine(<<"BLIND", " ", "5", " ", "POS", " ", "33">>),
      ResponseLine(<<"GETBLIND", " ", "5", " ", "33">>),
      ResponseLine(<<"TASK", " ", "1", " ", "RELEASE">>),
      ResponseLine(<<"STATUS", " ", "LOAD">>),
      ResponseLine(<<"INVOKE", " ", "1", " ", "100">>),
      ResponseLine(<<"RAMPLOAD", " ", "1", " ", "100">>) }

ctrl_feed_status == feed(StatusLines)

(***************************************************************************)
(* The specifications                                                      *)
(***************************************************************************)
\* The state in which connect() has just returned on thread 1: the
\* handshake of the first session is over, its last command (STATUS
\* VARIABLE) is not answered yet, and the connection thread is about to
\* read.
ConnectedInit ==
    /\ RHInit
    /\ pc = [t \in Threads |-> "idle"]
    /\ exc = [t \in Threads |-> ""]
    /\ todo = [t \in Threads |-> <<>>]
    /\ retTo = [t \in Threads |-> "idle"]
    /\ connectRet = [t \in Threads |->
                       IF t = 1
                       THEN [returned |-> TRUE, connected |-> TRUE,
                             written |-> LoginCmds, session |-> 1]
                       ELSE [returned |-> FALSE, connected |-> FALSE,
                             written |-> <<>>, session |-> 0]]
    /\ levelRet = [t \in Threads |->
                     [returned |-> FALSE, value |-> 0, released |-> FALSE,
                      ev |-> 0, round |-> 0, upto |-> 0, upd |-> 0]]
    /\ VantageInit
    /\ connected = TRUE
    /\ telnet = 1
    /\ lock = "free"
    /\ bgPc = "read"
    /\ hsStep = LoginSteps + 1
    /\ line = NoLine
    /\ bgExc = ""
    /\ sessions = 1
    /\ peerOpen = TRUE
    /\ wire = <<LoginCmds[Len(LoginCmds)]>>
    /\ written = LoginCmds
    /\ inbuf = <<>>
    /\ statusSent = 0

\* run() while the session is up
BgRun ==
    \/ maybe_reconnect
    \/ run_read
    \/ run_recv

\* run() when the session drops and the controller cannot be reached
BgDown ==
    \/ run_read_eof
    \/ disconnect_locked
    \/ do_login_open_fails
    \/ do_login_retry

CtrlNext ==
    \/ ctrl_answer
    \/ ctrl_close

\* connect() and the connection thread against the controller.
SpecConnect == Init /\ [][ConnectNext \/ BgCore \/ CtrlNext]_vars

\* The same with foreground threads sending commands.
SpecSend == Init /\ [][ConnectNext \/ SendNext \/ BgCore \/ CtrlNext]_vars

\* The steps of a level read that is under way on thread t
LevelSteps(t) ==
    \/ do_query_level(t)
    \/ send_cmd_append(t)
    \/ send_ascii_nl(t)
    \/ request_return(t)
    \/ level_return(t)

LevelNext ==
    \/ \E t \in Threads : level_get(t)
    \/ \E t \in Threads : LevelSteps(t)

BgLevel == BgRun \/ BgNotify \/ BgDown

\* Foreground threads reading the level of QueryVid over a connected
\* session; the controller answers, pushes statuses, and may close the
\* session and stay out of reach.
SpecLevel ==
    ConnectedInit /\ [][LevelNext \/ BgLevel \/ CtrlNext \/ ctrl_status]_vars

\* SpecLevel with the scheduler's fairness: a thread that can take a step
\* takes one.  Nothing is assumed of the controller.
SpecLevelFair ==
    /\ SpecLevel
    /\ WF_vars(BgLevel)
    /\ \A t \in Threads : WF_vars(LevelSteps(t))

\* notify() when no level read is waiting: the loop of lines 1080-1081
\* has nothing to set.
BgNotifyNoWaiter ==
    \/ run_recv_return
    \/ notify_swap
    \/ notify_return

\* Foreground threads sending commands over a connected session, with the
\* application subscribing to entities; the controller answers each
\* command with its response or with an error.
SpecError ==
    ConnectedInit /\ [][SendNext \/ subscribe \/ BgRun \/ ctrl_answer
                          \/ ctrl_error]_vars

\* Foreground threads setting the level of QueryVid over a connected
\* session; the controller answers and pushes the status of the load.
SpecSet ==
    ConnectedInit /\ [][SetNext \/ BgRun \/ BgNotifyNoWaiter \/ ctrl_answer
                          \/ ctrl_status]_vars

\* The dispatcher fed with shade updates, out-of-range levels and
\* responses of every class, the application subscribing to the load, the
\* shade and the variable and replacing handlers.
SpecStatus ==
    ConnectedInit /\ [][ctrl_feed_status \/ subscribe_any \/ BgRun
                          \/ BgNotifyNoWaiter]_vars

\* The RGB channel reports the controller feeds for load 1: two values
\* for each of the channels 0, 1, 2, the channel 3 and the channel -1.
RGBLines ==
    { StatusLine(<<"LOAD", " ", "1", " ", "RGBLoad.GetRGB", " ", val, " ", ch>>) :
        val \in {"250", "7"}, ch \in {"0", "1", "2", "3", "-1"} }

ctrl_feed_rgb == feed(RGBLines)

\* The dispatcher fed with RGB channel reports.
SpecRGB ==
    ConnectedInit /\ [][ctrl_feed_rgb \/ subscribe_any \/ BgRun
                          \/ BgNotifyNoWaiter]_vars

\* The levels the controller reports for the color controller 2 of load 1:
\* numbers inside and outside 0..100.
ColorLevels == {"-5", "-1", "0", "1", "33", "45.5", "100", "250"}
ColorLines ==
    { StatusLine(<<"LOAD", " ", "2", " ", x>>) : x \in ColorLevels }

ctrl_feed_color == feed(ColorLines)

\* The dispatcher fed with levels of a color controller.
SpecColor ==
    ConnectedInit /\ [][ctrl_feed_color \/ BgRun \/ BgNotifyNoWaiter]_vars

\* The color temperatures the application converts, in tenths of a kelvin:
\* 2000 K to 6400 K in steps of 25 K, and some that are no multiples.
Kelvins == {20000 + 250 * i : i \in 0..176} \cup {21999, 22001, 33333, 59999,
                                                  60001}

\* The application converts a color temperature to a level (as the
\* color_temp setter does, line 1496) and the level back to a color
\* temperature (as handle_update does, line 1361).
kelvin_round_trip ==
    /\ \E k \in Kelvins :
         lastCall' = [fn |-> "kelvin_round_trip", kelvin |-> k,
                      level |-> kelvin_to_level(k),
                      back |-> level_to_kelvin_frac(kelvin_to_level(k))]
    /\ UNCHANGED <<subscribers, idsTab, regLast, newLevel, fedLog, lastRecv,
                   callLog, varValue, lastHandler, shadeEvents>>
    /\ UNCHANGED <<thrVars, rhState, rhHist, connVars, netVars, entVars,
                   vanVars, histVars>>

SpecKelvin == Init /\ [][kelvin_round_trip]_vars

(***************************************************************************)
(* Area lineage                                                            *)
(***************************************************************************)
\* The vids of the areas of the configuration; NumAreas + 1 is the vid of
\* an area that is missing from _vid_to_area, 0 the parent of a root.
Areas == 1..NumAreas
MissingArea == NumAreas + 1

\* Vantage._vid_to_area: area vid |-> the parent of the area, every map,
\* those with cycles and with missing parents too. An area's name is
\* modelled by its vid.
AreaMaps == [Areas -> 0..MissingArea]

\* dict.get gave None
NoArea == 0

\* A traversal that gives up two hops later.
LineageHopsMore == 10 + 2

\* get_lineage_from_obj, line 710: count < 10
LineageHops == 10

\* full_lineage, line 1131: c < 5
FullLineageHops == 5

\* get_lineage_from_obj, lines 710-717: the loop, area being NoArea for None
RECURSIVE lineage_loop(_, _, _, _)
lineage_loop(m, area, count, answer) ==
    IF ~(area # NoArea /\ count < LineageHops)
    THEN [answer |-> answer, count |-> count]
    ELSE LET parent_vid == m[area] IN
         IF parent_vid = 0
         THEN [answer |-> answer, count |-> count + 1]
         ELSE IF parent_vid \in DOMAIN m
              THEN lineage_loop(m, parent_vid, count + 1,
                                Append(answer, parent_vid))
              ELSE lineage_loop(m, NoArea, count + 1, answer)

\* get_lineage_from_obj, lines 703-719, for an entity of area obj_area
get_lineage_from_obj(m, obj_area) ==
    IF obj_area \notin DOMAIN m THEN [answer |-> <<>>, count |-> 0]
    ELSE lineage_loop(m, obj_area, 0, <<obj_area>>)

\* list[::-1]
RECURSIVE reversed(_)
reversed(s) == IF s = <<>> THEN <<>> ELSE Append(reversed(Tail(s)), Head(s))

\* full_lineage, lines 1131-1139: the loop
RECURSIVE full_lineage_loop(_, _, _, _)
full_lineage_loop(m, avid, c, areas) ==
    IF ~(c < FullLineageHops) THEN [areas |-> areas, count |-> c]
    ELSE IF avid \notin DOMAIN m THEN [areas |-> areas, count |-> c + 1]
    ELSE IF m[avid] = 0
         THEN [areas |-> Append(areas, avid), count |-> c + 1]
         ELSE full_lineage_loop(m, m[avid], c + 1, Append(areas, avid))

\* full_lineage, lines 1125-1142, for an entity of area avid; the entity's
\* own name is the string name
full_lineage(m, avid, name) ==
    LET r == full_lineage_loop(m, avid, 0, <<>>) IN
    [areas |-> reversed(r.areas), name |-> name, count |-> r.count]

\* The application asks for the lineage of an entity of some area, under
\* some area map.
lineage_call ==
    /\ \E m \in AreaMaps, a \in 0..MissingArea :
         lastCall' = [fn |-> "lineage", map |-> m, area |-> a,
                      lineage |-> get_lineage_from_obj(m, a),
                      full |-> full_lineage(m, a, "Pendant")]
    /\ UNCHANGED <<subscribers, idsTab, regLast, newLevel, fedLog, lastRecv,
                   callLog, varValue, lastHandler, shadeEvents>>
    /\ UNCHANGED <<thrVars, rhState, rhHist, connVars, netVars, entVars,
                   vanVars, histVars>>

SpecLineage == Init /\ [][lineage_call]_vars

(***************************************************************************)
(* Shade.level (getter) on the shade ShadeVid                              *)
(***************************************************************************)
\* Shade.__do_query_level, line 1851: the command it sends
ShadeQueryCmd == Cmd("GETBLIND", str(ShadeVid), 0)

\* Shade.level, line 1829, with _RequestHelper.request, lines 1063-1073:
\* under the helper's lock the caller's event joins __events, and the
\* caller that found the list empty goes on to send GETBLIND; then the
\* caller waits on its event.
shade_level_get(t) ==
    /\ pc[t] = "idle"
    /\ Len(shadeEvents) < MaxShadeReads
    /\ shadeEvents = <<>> => nextCmd < MaxSends
    /\ shadeEvents' = Append(shadeEvents, t)
    /\ IF shadeEvents = <<>>
       THEN /\ todo' = [todo EXCEPT ![t] = <<ShadeQueryCmd>>]
            /\ retTo' = [retTo EXCEPT ![t] = "shade_wait"]
            /\ pc' = [pc EXCEPT ![t] = "send_append"]
       ELSE /\ pc' = [pc EXCEPT ![t] = "shade_wait"]
            /\ UNCHANGED <<todo, retTo>>
    /\ UNCHANGED exc
    /\ UNCHANGED <<subscribers, idsTab, regLast, newLevel, fedLog, lastRecv,
                   callLog, varValue, lastHandler, lastCall>>
    /\ UNCHANGED <<rhState, rhHist, connVars, netVars, entVars, vanVars,
                   histVars>>

\* Shade.level, lines 1830-1831: ev.wait(self._wait_seconds) ends when the
\* event is set or when the time is over; then self._level is returned.
shade_level_return(t) ==
    /\ pc[t] = "shade_wait"
    /\ pc' = [pc EXCEPT ![t] = "idle"]
    /\ lastCall' = [fn |-> "Shade.level", thread |-> t,
                    released |-> t \notin SeqToSet(shadeEvents)]
    /\ UNCHANGED <<exc, todo, retTo>>
    /\ UNCHANGED <<subscribers, idsTab, regLast, newLevel, fedLog, lastRecv,
                   callLog, varValue, lastHandler, shadeEvents>>
    /\ UNCHANGED <<rhState, rhHist, connVars, netVars, entVars, vanVars,
                   histVars>>

\* The status lines the controller pushes for the shade.
ShadeLines ==
    { StatusLine(<<"BLIND", " ", str(ShadeVid), " ", "POS", " ", "33">>),
      StatusLine(<<"BLIND", " ", str(ShadeVid), " ", "OPEN">>) }

ctrl_feed_shade == feed(ShadeLines)

\* Foreground threads reading the level of the shade over a connected
\* session; the controller answers each command and pushes shade status.
SpecShade ==
    ConnectedInit /\ [][\/ \E t \in Threads : shade_level_get(t)
                        \/ \E t \in Threads : send_cmd_append(t)
                        \/ \E t \in Threads : send_ascii_nl(t)
                        \/ \E t \in Threads : shade_level_return(t)
                        \/ BgRun \/ ctrl_answer \/ ctrl_feed_shade]_vars

\* Foreground threads setting the variable VarVid to text values over a
\* connected session.
SpecVar == ConnectedInit /\ [][VarNext]_vars

\* The dispatcher fed by the controller over a connected session, with
\* the application subscribing to entities.
SpecDispatch ==
    ConnectedInit /\ [][ctrl_feed \/ subscribe \/ BgRun
                          \/ BgNotifyNoWaiter]_vars


(***************************************************************************)
(* C1, C2: the rounds of _RequestHelper                                    *)
(***************************************************************************)
\* The joiners of round r that still have to run their action.
PendingActions(r) ==
    {t \in Threads : pc[t] = "locked_done" /\ rhRound[t] = r
                       /\ rhSawEmpty[t]}

\* C1 as stated: in the interval between two consecutive notify() swaps the
\* trigger is executed exactly once if at least one caller joined in it.
C1_OncePerInterval ==
    lastClosed.joins > 0 => lastClosed.trigs = 1

\* C1 amended: a round in which a caller joined has exactly one joiner that
\* found the list empty; the trigger is run by that joiner alone, once, and
\* never by one that found the list non-empty; the run itself may come after
\* the swap that closes the round.
C1_OneTriggerPerRound ==
    /\ \A r \in Rounds :
         /\ joins[r] > 0 => firsts[r] = 1
         /\ joins[r] = 0 => firsts[r] = 0
         /\ trigs[r] + Cardinality(PendingActions(r)) = firsts[r]
    /\ \A t \in Threads : pc[t] = "acted" => rhSawEmpty[t]

\* Two callers joined one round, its trigger ran once, after the round's
\* closing swap.
C1_Witness ==
    \E r \in Rounds : joins[r] >= 2 /\ trigs[r] = 1 /\ round > r
                        /\ lastClosed.trigs = 0

\* C2: notify() replaces the list by the empty list in one step and sets
\* exactly the events of the old list: when it returns none of them is
\* unset, an event appended after the swap is not set by it, and the first
\* request() after the swap finds the list empty and runs its action.
C2_NotifyReleasesOldSet ==
    /\ nDidSet \subseteq SeqToSet(nSwapped)
    /\ SeqToSet(events) \cap SeqToSet(nSwapped) = {}
    /\ SeqToSet(events) \cap evSet = {}
    /\ (nPc = "idle" /\ round > 0) => SeqToSet(nSwapped) \subseteq evSet
    /\ \A t \in Threads :
         (pc[t] # "idle" /\ rhOrd[t] = 1) => rhFirst[t]
    /\ \A t \in Threads :
         (pc[t] \in {"idle", "returned"} /\ rhOrd[t] = 1)
            => trigs[rhRound[t]] = 1

\* A notify() returned after releasing two waiters, and a request() that
\* came after its swap has started the next round.
C2_Witness ==
    /\ nPc = "idle" /\ round > 0
    /\ Len(nSwapped) >= 2
    /\ \E t \in Threads : pc[t] = "acted" /\ rhRound[t] = round

(***************************************************************************)
(* C3, C4: the synchronous level read                                      *)
(***************************************************************************)
\* The GETLOAD commands written by the readers that joined round r
GetloadsOf(r) == {g \in getloads : g.round = r}

\* The read that t returned from began while the read that u returned from
\* was under way.
Overlapped(t, u) ==
    /\ t # u
    /\ levelRet[t].returned /\ levelRet[u].returned
    /\ levelRet[u].ev < levelRet[t].ev
    /\ levelRet[t].ev <= levelRet[u].upto

\* C3 as stated: two level reads of the output that overlap in time put
\* exactly one GETLOAD on the wire between them and return the same value.
C3_OneGetloadSameValue ==
    \A t, u \in Threads :
        Overlapped(t, u) =>
            /\ Cardinality({g \in getloads :
                              g.ev \in {levelRet[t].ev, levelRet[u].ev}}) = 1
            /\ levelRet[t].value = levelRet[u].value

\* C3 amended: the reads that join one round of the helper write at most
\* one GETLOAD between them; it is written by the reader that found the
\* waiter list empty, and it is there once that reader's send has returned.
\* Two reads that return with the same updates applied return the same
\* value.
C3_OneGetloadPerRound ==
    /\ \A r \in Rounds :
         /\ Cardinality(GetloadsOf(r)) <= 1
         /\ Cardinality(GetloadsOf(r)) <= trigs[r]
    /\ \A g \in getloads, t \in Threads : rhEv[t] = g.ev => rhSawEmpty[t]
    /\ \A t \in Threads :
         (rhSawEmpty[t] /\ pc[t] \in {"acted", "returned"})
            => Cardinality(GetloadsOf(rhRound[t])) = 1
    /\ \A t, u \in Threads :
         (levelRet[t].returned /\ levelRet[u].returned
            /\ levelRet[t].upd = levelRet[u].upd)
            => levelRet[t].value = levelRet[u].value

\* Two overlapping reads joined the same round, one GETLOAD was written for
\* it, both were released by the update it brought and returned 100.0.
C3_Witness ==
    \E t, u \in Threads :
        /\ Overlapped(t, u)
        /\ levelRet[t].round = levelRet[u].round
        /\ Cardinality(GetloadsOf(levelRet[t].round)) = 1
        /\ levelRet[t].released /\ levelRet[u].released
        /\ levelRet[t].value = 1000 /\ levelRet[u].value = 1000

\* A thread is inside a level read
InLevelRead(t) == pc[t] \notin {"idle", "raised"}

\* C4: a level read that has begun comes to an end (it returns, or at
\* least raises), whatever the connection is doing.
C4_LevelReadEnds ==
    \A t \in Threads : InLevelRead(t) ~> ~InLevelRead(t)

(***************************************************************************)
(* C5, C6, C8: connect(), the read loop and the handshake                  *)
(***************************************************************************)
\* The handshake of the current session is over: every line of
\* _do_login_locked was written, in order.
HandshakeWritten(w) ==
    /\ Len(w) >= Len(LoginCmds)
    /\ SubSeq(w, 1, Len(LoginCmds)) = LoginCmds

\* C5: connect() returns only when the connected flag is set and the login
\* and the four subscriptions of the current session have been written; a
\* caller woken while the flag is down does not return.
C5_ConnectReturnsConnected ==
    \A t \in Threads :
        connectRet[t].returned =>
            /\ connectRet[t].connected
            /\ HandshakeWritten(connectRet[t].written)

\* connect() returned on the second session: its caller was woken by the
\* disconnect of the first session and went back to waiting.
C5_Witness ==
    \E t \in Threads : connectRet[t].returned /\ connectRet[t].session = 2

\* A thread is blocked in connect()
InConnect(t) == pc[t] \in {"connect_wait", "connect_asleep"}

\* C6: end-of-stream in the read loop takes the thread to
\* _disconnect_locked, which clears the connected flag and the session, and
\* from there back to opening the transport; the thread does not end.  A
\* caller blocked in connect() leaves it only with the flag set, and every
\* sleeping caller is woken when a handshake sets the flag.
C6_ReadLoopReconnects ==
    [][/\ (bgPc = "read" /\ bgPc' # bgPc)
            => bgPc' \in {"recv", "disconnect"}
       /\ (bgPc = "disconnect" /\ bgPc' # bgPc)
            => bgPc' = "maybe_reconnect" /\ ~connected' /\ telnet' = 0
       /\ (bgPc = "maybe_reconnect" /\ ~connected /\ bgPc' # bgPc)
            => bgPc' = "open"
       /\ (bgPc = "open" /\ bgPc' # bgPc) => bgPc' \in {"login", "sleep"}
       /\ \A t \in Threads :
            (InConnect(t) /\ ~InConnect(t)') => connected /\ pc'[t] = "idle"
       /\ (~connected /\ connected')
            => \A t \in Threads : pc'[t] # "connect_asleep"
      ]_vars

\* After an end-of-stream in the read loop the second handshake succeeded
\* and released a caller that had been blocked in connect() since before
\* the first.
C6_Witness ==
    /\ sessions = 2
    /\ connected
    /\ \E t \in Threads : pc[t] = "connect_wait" /\ ~connectRet[t].returned

\* C8: an error while writing or reading inside the handshake does not end
\* the connection thread.
C8_HandshakeErrorNotFatal ==
    ~(bgPc = "dead" /\ hsStep <= LoginSteps
        /\ bgExc \in {"BrokenPipeError", "EOFError"})

(***************************************************************************)
(* C7, C10: sending commands                                               *)
(***************************************************************************)
\* C7: no call of send / send_cmd / send_ascii_nl raises for a fault of
\* the transport.
C7_SendNeverRaises ==
    \A t \in Threads : exc[t] \notin {"AttributeError", "BrokenPipeError"}

\* C10: a response to a command issued through send_cmd is matched to
\* that command.
C10_ResponseMatchesItsCommand ==
    lastMatch.resp.n > 0 => lastMatch.cmd = lastMatch.resp

(***************************************************************************)
(* C9: malformed lines                                                     *)
(***************************************************************************)
\* C9: no line ends the connection thread: an exception raised while a
\* line is dispatched does not reach run().
C9_MalformedLineDropped ==
    bgPc # "dead"

(***************************************************************************)
(* C11: for any command type T and VID v already registered under T, a     *)
(* further register_id(T, aux, e) with e.vid = v, whatever aux is, raises  *)
(* VIDExistsError and leaves the entity registered first stored under      *)
(* (T, v).                                                                 *)
(***************************************************************************)
C11_DuplicateVidRejected ==
    regLast.dup =>
        /\ regLast.exc = "VIDExistsError"
        /\ idsTab = regLast.before

(***************************************************************************)
(* The last line the dispatcher handled                                    *)
(***************************************************************************)
\* The pieces _recv splits the last line into (line 798)
LastParts == re_split(decode_rstrip(lastRecv.line).rest, "")

\* _recv, lines 850-851: the command types whose responses carry a value
ValueTypes == {"LOAD", "POWER", "CURRENT", "SENSOR", "LIGHT"}

\* The last line is <typ>:<T> <vid> <x> with T one of types, vid registered
\* under the canonical type of T and x a number.
LastIsValueLine(typ, types) ==
    /\ lastRecv.n > 0
    /\ lastRecv.line.head = <<typ, ":">>
    /\ Len(LastParts) = 3
    /\ LastParts[1] \in types
    /\ isdigit(LastParts[2])
    /\ int(LastParts[2]) \in ids(strip_get(LastParts[1]))
    /\ is_float(LastParts[3])

\* The entities' state E with the cached value of entity v set to x
SetValue(E, v, x) ==
    IF v \in Outputs THEN [E EXCEPT !.level[v] = x]
    ELSE [E EXCEPT !.value[v] = x]

\* The command types of class typ that carry a value (lines 824-826, 850)
ValueLineTypes(typ) ==
    {c \in (IF typ = "R" THEN r_cmds ELSE s_cmds) : strip_get(c) \in ValueTypes}

IsColorController(v) ==
    v \in Outputs /\ Entities[v].output_type = "COLOR"

(***************************************************************************)
(* C12: a well-formed value line for a registered VID sets exactly that    *)
(* entity's cached value and invokes its subscriber once.                  *)
(***************************************************************************)
\* C12 as stated: for every value-bearing command type (LOAD, POWER,
\* CURRENT, SENSOR, LIGHT), a well-formed status line S:<T> <vid> <x> for a
\* registered VID sets exactly that entity's cached value to x, changes no
\* other entity and invokes the subscriber of that entity exactly once.
C12_StatusLineSetsValue ==
    LastIsValueLine("S", ValueTypes) =>
        /\ lastRecv.handled
        /\ lastRecv.after = SetValue(lastRecv.before, int(LastParts[2]),
                                     float(LastParts[3]))
        /\ lastRecv.calls = <<int(LastParts[2])>>

\* C12 amended: a line S:LOAD v x, R:LOAD v x or R:GET<T> v x (T one of
\* LOAD, POWER, CURRENT, SENSOR, LIGHT) with numeric x, for a VID v that is
\* registered under the canonical type and is not a color controller, sets
\* exactly that entity's cached value to x, changes no other entity, and
\* invokes the subscriber of that entity once if it has one and no
\* subscriber otherwise.
C12_ValueLineSetsValue ==
    \A typ \in {"R", "S"} :
        (/\ LastIsValueLine(typ, ValueLineTypes(typ))
         /\ ~IsColorController(int(LastParts[2]))) =>
            /\ lastRecv.handled
            /\ lastRecv.after = SetValue(lastRecv.before, int(LastParts[2]),
                                         float(LastParts[3]))
            /\ lastRecv.calls = IF int(LastParts[2]) \in lastRecv.subs
                                THEN <<int(LastParts[2])>> ELSE <<>>

\* S:LOAD 1 45.5 was dispatched with a subscriber on output 1: the level is
\* 45.5 and the subscriber was called once.
C12_Witness ==
    /\ LastIsValueLine("S", {"LOAD"})
    /\ LastParts = <<"LOAD", "1", "45.5">>
    /\ lastRecv.after.level[1] = 455
    /\ lastRecv.before.level[1] # 455
    /\ lastRecv.calls = <<1>>

(***************************************************************************)
(* C13: a single-argument status line addressed to a color controller      *)
(* mutates and notifies the associated load and never the controller: the  *)
(* subscriber invoked, if any, is the one of the associated load, and the  *)
(* controller's own subscriber is not invoked, whatever _vid_to_load       *)
(* holds.                                                                  *)
(***************************************************************************)
C13_ColorLineNotifiesLoad ==
    (/\ LastIsValueLine("S", {"LOAD"})
     /\ IsColorController(int(LastParts[2]))) =>
        LET ctl == int(LastParts[2])
            light == Entities[ctl].cc_vid IN
        /\ ctl \notin SeqToSet(lastRecv.calls)
        /\ lastRecv.after.level = lastRecv.before.level
        /\ light \in vid_to_load =>
              /\ lastRecv.after.color_temp[light] =
                    level_to_kelvin(float(LastParts[3]))
              /\ lastRecv.calls = IF light \in lastRecv.subs
                                  THEN <<light>> ELSE <<>>

(***************************************************************************)
(* C14: a status line for a button that belongs to a keypad redirects the  *)
(* notification to the keypad: the keypad's subscriber is invoked, and     *)
(* not the button's, and after the update the keypad's extra info holds    *)
(* the triple (button position, button name, action) of the event.         *)
(***************************************************************************)
\* The last line is S:BTN <vid> <action> for a registered button.
LastIsButtonLine ==
    /\ lastRecv.n > 0
    /\ lastRecv.line.head = <<"S", ":">>
    /\ Len(LastParts) >= 3
    /\ LastParts[1] = "BTN"
    /\ isdigit(LastParts[2])
    /\ int(LastParts[2]) \in ids("BTN")

\* The dict ei has an entry whose value is x.
ExtraInfoHolds(ei, x) == \E k \in DOMAIN ei : ei[k] = x

C14_ButtonRedirectsToKeypad ==
    (LastIsButtonLine /\ Entities[int(LastParts[2])].keypad # NoVid) =>
        LET b == int(LastParts[2])
            keypad == Entities[b].keypad
            ei == lastRecv.after.kp[keypad].extra_info IN
        /\ keypad \in lastRecv.subs => keypad \in SeqToSet(lastRecv.calls)
        /\ b \notin SeqToSet(lastRecv.calls)
        /\ ExtraInfoHolds(ei, str(Entities[b].num))
        /\ ExtraInfoHolds(ei, Entities[b].name)
        /\ ExtraInfoHolds(ei, LastParts[3])

(***************************************************************************)
(* C15: a status line for a dry contact (a button with no keypad) does not *)
(* redirect: only the dry contact is mutated and notified, and its value   *)
(* becomes Violated for PRESS, Normal for RELEASE and the action token     *)
(* itself for any other token.                                             *)
(***************************************************************************)
C15_DryContactMapsAction ==
    (LastIsButtonLine /\ Entities[int(LastParts[2])].keypad = NoVid) =>
        LET b == int(LastParts[2])
            action == LastParts[3]
            val == CASE action = "PRESS" -> "Violated"
                     [] action = "RELEASE" -> "Normal"
                     [] OTHER -> action IN
        /\ lastRecv.handled
        /\ lastRecv.after = [lastRecv.before EXCEPT !.btn[b] = val]
        /\ lastRecv.calls = IF b \in lastRecv.subs THEN <<b>> ELSE <<>>

\* S:BTN 9 PRESS was dispatched with a subscriber on dry contact 9: its
\* value went from None to Violated and its subscriber was called.
C15_Witness ==
    /\ LastIsButtonLine
    /\ LastParts = <<"BTN", "9", "PRESS">>
    /\ lastRecv.before.btn[9] = None
    /\ lastRecv.after.btn[9] = "Violated"
    /\ lastRecv.calls = <<9>>

(***************************************************************************)
(* C16: handling one inbound line produces zero or one subscriber          *)
(* notification: at most one subscriber is invoked, at most once.          *)
(***************************************************************************)
C16_AtMostOneNotification ==
    Len(lastRecv.calls) <= 1

(***************************************************************************)
(* C17: an inbound line that is a protocol fault (first character neither  *)
(* R nor S, command type not in the allow-list of its class, non-numeric   *)
(* VID, or VID not registered under the canonical command type) changes no *)
(* entity's cached value, invokes no subscriber, releases no waiter of a   *)
(* request helper, and does not keep later lines from being dispatched.    *)
(***************************************************************************)
\* _recv, lines 785-797 and 802: the allow-list of the class of the line
AllowList(typ) == IF typ = "R" THEN r_cmds ELSE s_cmds

\* The last line dispatched is a protocol fault.
LastIsFault ==
    /\ lastRecv.n > 0
    /\ lastRecv.line.head # <<>>
    /\ LET typ == lastRecv.line.head[1] IN
       \/ typ \notin {"R", "S"}
       \/ LastParts[1] \notin AllowList(typ)
       \/ /\ LastParts[1] \in AllowList(typ)
          /\ strip_get(LastParts[1]) \in RegisteredTypes
          /\ Len(LastParts) >= 2
          /\ \/ ~isdigit(LastParts[2])
             \/ int(LastParts[2]) \notin ids(strip_get(LastParts[1]))

C17_FaultLineDropped ==
    LastIsFault =>
        /\ lastRecv.after = lastRecv.before
        /\ lastRecv.calls = <<>>
        /\ lastRecv.rhn = {}
        /\ lastRecv.exc = ""
        /\ bgPc # "dead"

(***************************************************************************)
(* C18: an R:ERROR line received with at least one outstanding command     *)
(* removes exactly the oldest entry of the queue of outstanding commands,  *)
(* the rest keeping its order, mutates no entity and notifies no           *)
(* subscriber.                                                             *)
(***************************************************************************)
\* The last line dispatched is R:ERROR ...
LastIsError ==
    /\ lastRecv.n > 0
    /\ lastRecv.line.head = <<"R", ":">>
    /\ LastParts[1] = "ERROR"

C18_ErrorPopsOldest ==
    (LastIsError /\ Len(lastRecv.q) >= 1) =>
        /\ lastRecv.q2 = Tail(lastRecv.q)
        /\ lastRecv.after = lastRecv.before
        /\ lastRecv.calls = <<>>

\* An R:ERROR line was dispatched with two commands outstanding and a
\* subscriber registered: the older command is gone, the newer stays.
C18_Witness ==
    /\ LastIsError
    /\ Len(lastRecv.q) = 2
    /\ lastRecv.q2 = <<lastRecv.q[2]>>
    /\ lastRecv.subs # {}

(***************************************************************************)
(* C19: an entity's cached value is mutated only by the dispatcher         *)
(* delivering an update on the connection thread: no step of a foreground  *)
(* operation, the value setters included, changes an entity's cached       *)
(* state.                                                                  *)
(***************************************************************************)
C19_OnlyDispatcherMutates ==
    [][entVars' # entVars => bgPc = "recv" /\ bgPc' # "recv"]_vars

(***************************************************************************)
(* C20: updates for a single VID are delivered in wire order: the state    *)
(* mutations and the subscriber invocations for an entity happen in the    *)
(* order in which the lines addressed to it were read from the transport.  *)
(* The connection thread dispatches every line before it reads the next,   *)
(* so the order holds for all lines together: the n-th line dispatched is  *)
(* the n-th line the controller sent, the entities' state is the one that  *)
(* line left, and the subscriber invocations are logged in line order.     *)
(***************************************************************************)
C20_WireOrder ==
    /\ lastRecv.n <= Len(fedLog)
    /\ lastRecv.n > 0 => lastRecv.line = fedLog[lastRecv.n]
    /\ EntState = lastRecv.after
    /\ \A i \in 1..Len(callLog) :
         /\ callLog[i].n <= lastRecv.n
         /\ \A j \in 1..Len(callLog) : i < j => callLog[i].n <= callLog[j].n

\* Two status lines for output 1 were sent, S:LOAD 1 100 and then
\* S:LOAD 1 45.5, and both were dispatched: the subscriber of output 1 was
\* called for the first and then for the second, and the level is the
\* second's.
C20_Witness ==
    /\ Len(fedLog) = 2
    /\ fedLog[1].rest = <<"LOAD", " ", "1", " ", "100">>
    /\ fedLog[2].rest = <<"LOAD", " ", "1", " ", "45.5", " ">>
    /\ lastRecv.n = 2
    /\ callLog = <<[vid |-> 1, n |-> 1], [vid |-> 1, n |-> 2]>>
    /\ lastRecv.before.level[1] = 1000
    /\ level[1] = 455

(***************************************************************************)
(* C21: on every connection and reconnection the connection thread writes, *)
(* in this order, LOGIN, STATUS LOAD, STATUS BLIND, STATUS BTN and STATUS   *)
(* VARIABLE, and sets the connected flag only after all five lines were    *)
(* written: while the login procedure runs, the lines written on the       *)
(* session are a prefix of that sequence, and the flag is never set for a  *)
(* session on which the sequence was not completed.                        *)
(***************************************************************************)
C21_LoginBeforeConnected ==
    /\ bgPc = "login" =>
          /\ ~connected
          /\ Len(written) <= Len(LoginCmds)
          /\ written = SubSeq(LoginCmds, 1, Len(written))
    /\ connected => HandshakeWritten(written)

\* The flag is set on the second session, after a reconnection, and a
\* foreground command was written behind the five lines of its login.
C21_Witness ==
    /\ connected
    /\ sessions = 2
    /\ Len(written) > Len(LoginCmds)
    /\ HandshakeWritten(written)

(***************************************************************************)
(* C22: setting a variable to a text value that contains a double quote,   *)
(* a newline or a carriage return at any position is rejected with an      *)
(* error raised to the caller; no VARIABLE command is then written to the  *)
(* wire and the queue of outstanding commands is unchanged.                *)
(***************************************************************************)
\* The text of command c holds a quote or a newline between its first and
\* last character (where the quotes of a quoted value are).
TextBroken(c) ==
    \E i \in 2..(Len(c.text) - 1) : c.text[i] \in {"\"", "\n", "\r"}

C22_BadTextRejected ==
    /\ \A t \in Threads :
          p_search(varValue[t]) =>
              /\ pc[t] = "raised"
              /\ exc[t] = "Exception"
    /\ \A c \in SeqToSet(cmds) \cup SeqToSet(written) :
          c.op = "VARIABLE" => ~TextBroken(c)

(***************************************************************************)
(* C23: a shade update sets the shade's level from a token: OPEN gives     *)
(* 100, CLOSE gives 0, STOP leaves the level unset (None), POS <level>     *)
(* gives that level, and any other token is parsed as a bare number.       *)
(***************************************************************************)
\* The last line is S:BLIND <vid> <token> ... for a registered shade.
LastIsShadeLine ==
    /\ lastRecv.n > 0
    /\ lastRecv.line.head = <<"S", ":">>
    /\ Len(LastParts) >= 3
    /\ LastParts[1] = "BLIND"
    /\ isdigit(LastParts[2])
    /\ int(LastParts[2]) \in ids("BLIND")

C23_ShadeLevelFromToken ==
    LastIsShadeLine =>
        LET v == int(LastParts[2])
            tok == LastParts[3]
            lv == lastRecv.after.level[v] IN
        /\ tok = "OPEN" => lv = 1000
        /\ tok = "CLOSE" => lv = 0
        /\ tok = "STOP" => lv = None
        /\ (tok = "POS" /\ Len(LastParts) >= 4 /\ is_float(LastParts[4]))
              => lv = float(LastParts[4])
        /\ is_float(tok) => lv = float(tok)

\* S:BLIND 5 POS 33 was dispatched after S:BLIND 5 CLOSE: the level of
\* shade 5 went from 0 to 33.
C23_Witness ==
    /\ LastIsShadeLine
    /\ LastParts = <<"BLIND", "5", "POS", "33">>
    /\ lastRecv.n = 2
    /\ fedLog[1].rest = <<"BLIND", " ", "5", " ", "CLOSE">>
    /\ lastRecv.after.level[5] = 330

(***************************************************************************)
(* C24: in every reachable state the cached level of every load/output     *)
(* entity lies in the range 0..100 (0..1000 in tenths).                    *)
(***************************************************************************)
C24_OutputLevelInRange ==
    \A v \in Outputs : level[v] >= 0 /\ level[v] <= 1000

(***************************************************************************)
(* C25: there is one subscriber handler per entity: after subscribe(e, h1) *)
(* and then subscribe(e, h2), an update whose changed entity is e invokes  *)
(* h2 once and never h1; the handler runs on the dispatching thread as     *)
(* part of handling the line, before the next line is read.                *)
(***************************************************************************)
C25_LatestHandlerOnce ==
    /\ DOMAIN subscribers = DOMAIN lastHandler
    /\ \A v \in DOMAIN subscribers : subscribers[v] = lastHandler[v]
    /\ lastRecv.n > 0 =>
         /\ Len(lastRecv.calls) <= 1
         /\ Len(lastRecv.handlers) = Len(lastRecv.calls)
         /\ \A i \in 1..Len(lastRecv.calls) :
              /\ lastRecv.calls[i] = lastRecv.ret
              /\ lastRecv.handlers[i] = lastRecv.latest[i]
    /\ \A i \in 1..Len(callLog) : callLog[i].n <= lastRecv.n

\* Entity 1 was subscribed with handler 1 and then with handler 2, and a
\* line that changed entity 1 invoked handler 2.
C25_Witness ==
    /\ lastRecv.n > 0
    /\ lastRecv.calls = <<1>>
    /\ lastRecv.handlers = <<2>>
    /\ lastRecv.latest = <<2>>
    /\ lastRecv.before.level[1] # lastRecv.after.level[1]

(***************************************************************************)
(* C26: connect() called while a connection exists (the connected flag is  *)
(* set or the connection thread is alive) raises ConnectionExistsError     *)
(* and starts no second thread: the one thread of the connection object    *)
(* is started at most once and never started again.                        *)
(***************************************************************************)
\* The connection thread is started and run() has not ended.
ThreadRuns == bgPc \notin {"unstarted", "dead"}

\* A step of connect() that finds a connection, and any step on the thread
ConnectWhenExistsRaises ==
    /\ \A t \in Threads :
         (pc[t] = "idle" /\ pc'[t] # "idle" /\ (connected \/ ThreadRuns))
            => /\ pc'[t] = "raised"
               /\ exc'[t] = "ConnectionExistsError"
               /\ bgPc' = bgPc
    /\ bgPc # "unstarted" => bgPc' # "unstarted"
    /\ bgPc = "dead" => bgPc' = "dead"
    /\ (bgPc = "unstarted" /\ bgPc' # "unstarted")
         => ~connected /\ \E t \in Threads : pc[t] = "connect_start"

C26_ConnectWhenExistsRaises == [][ConnectWhenExistsRaises]_vars

\* A thread called connect() while the connection thread was alive and got
\* ConnectionExistsError; the thread started by the first caller runs on.
C26_Witness ==
    /\ \E t \in Threads : pc[t] = "raised" /\ exc[t] = "ConnectionExistsError"
    /\ ThreadRuns

(***************************************************************************)
(* C27: an entity's handle_update is invoked only for a status line (S) or *)
(* for a response (R) whose command type, "GET" stripped, is one of LOAD,  *)
(* POWER, CURRENT, SENSOR, LIGHT; every other response changes no entity   *)
(* and invokes no subscriber.                                              *)
(***************************************************************************)
\* The last line is a response of a type that carries no value.
LastIsOtherResponse ==
    /\ lastRecv.n > 0
    /\ lastRecv.line.head = <<"R", ":">>
    /\ Len(LastParts) >= 1
    /\ strip_get(LastParts[1]) \notin ValueTypes

C27_OnlyValueLinesForwarded ==
    /\ (lastRecv.n > 0 /\ lastRecv.handled) =>
          \/ lastRecv.line.head = <<"S", ":">>
          \/ /\ lastRecv.line.head = <<"R", ":">>
             /\ strip_get(LastParts[1]) \in ValueTypes
    /\ LastIsOtherResponse =>
          /\ ~lastRecv.handled
          /\ lastRecv.calls = <<>>
          /\ lastRecv.after = lastRecv.before

\* R:VARIABLE 6 33 was dispatched for the registered, subscribed variable
\* 6 and neither changed it nor invoked its handler.
C27_Witness ==
    /\ LastIsOtherResponse
    /\ LastParts = <<"VARIABLE", "6", "33">>
    /\ 6 \in lastRecv.subs
    /\ 6 \in ids("VARIABLE")
    /\ lastRecv.calls = <<>>
    /\ lastRecv.after = lastRecv.before

(***************************************************************************)
(* C28: whenever handle_update returns an entity, the dispatcher invokes   *)
(* the subscriber of that entity, if it has one, and releases the waiters  *)
(* of that entity's request helper; this holds for outputs and for shades. *)
(***************************************************************************)
C28_ReturnNotifiesAndReleases ==
    (lastRecv.n > 0 /\ lastRecv.ret \in Outputs \cup Shades) =>
        /\ lastRecv.ret \in lastRecv.subs => lastRecv.ret \in SeqToSet(lastRecv.calls)
        /\ lastRecv.ret \in lastRecv.rhn

(***************************************************************************)
(* C29: the queue of pending commands is touched by the connection thread  *)
(* only: no step of a foreground thread changes it.                        *)
(***************************************************************************)
C29_QueueOnBackgroundOnly == [][cmds' # cmds => bgPc = "recv"]_vars

(***************************************************************************)
(* C30: after a keypad got the update of one of its buttons, the keypad's  *)
(* value is the action token of the event and its extra info records the   *)
(* button's name and the action.                                           *)
(***************************************************************************)
C30_KeypadValueIsAction ==
    (LastIsButtonLine /\ Entities[int(LastParts[2])].keypad # NoVid) =>
        LET b == int(LastParts[2])
            k == lastRecv.after.kp[Entities[b].keypad] IN
        /\ k.set
        /\ k.extra_info["button_name"] = Entities[b].name
        /\ k.extra_info["button_action"] = LastParts[3]
        /\ str(k.value) = LastParts[3]

(***************************************************************************)
(* C31: an RGB channel report (RGBLoad.GetRGB <value> <channel>) for an    *)
(* output stores the value in the output's 3-element color buffer at index *)
(* channel, for channel in 0..2, and leaves the other two elements and     *)
(* every other entity unchanged; the output's waiters are released if and  *)
(* only if the channel is 2.                                               *)
(***************************************************************************)
\* The last line is S:LOAD <vid> RGBLoad.GetRGB <value> <channel> for a
\* registered load, with an integer value and a channel of 0..2.
LastIsRGBLine ==
    /\ lastRecv.n > 0
    /\ lastRecv.line.head = <<"S", ":">>
    /\ Len(LastParts) = 5
    /\ LastParts[1] = "LOAD"
    /\ isdigit(LastParts[2])
    /\ int(LastParts[2]) \in ids("LOAD")
    /\ LastParts[3] = "RGBLoad.GetRGB"
    /\ is_int(LastParts[4])
    /\ LastParts[5] \in {"0", "1", "2"}

C31_RGBChannelStored ==
    LastIsRGBLine =>
        LET v == int(LastParts[2])
            val == int(LastParts[4])
            ch == int(LastParts[5]) IN
        /\ lastRecv.after =
              [lastRecv.before EXCEPT !.rgb[v][ch + 1] = val]
        /\ (v \in lastRecv.rhn) <=> (ch = 2)
        /\ lastRecv.rhn \subseteq {v}

\* Channel 1 of load 1 was reported after channel 0: the buffer holds both
\* values, and no waiter was released.
C31_Witness ==
    /\ LastIsRGBLine
    /\ lastRecv.n = 2
    /\ LastParts[5] = "1"
    /\ lastRecv.before.rgb[1] = <<250, 0, 0>>
    /\ lastRecv.after.rgb[1] = <<250, 7, 0>>
    /\ lastRecv.rhn = {}

(***************************************************************************)
(* C32: level_to_kelvin(level) is 2200 + level/100*(6000-2200) for a level *)
(* in [0,100], 2200 for a level below 0 and 6000 for a level above 100, so *)
(* the color temperature a color-controller update stores lies in          *)
(* [2200,6000] (levels and kelvins in tenths).                             *)
(***************************************************************************)
\* The last line is S:LOAD <vid> <x> for a color controller whose load
\* exists, x a number.
LastIsColorLine ==
    /\ LastIsValueLine("S", {"LOAD"})
    /\ Entities[int(LastParts[2])].output_type = "COLOR"
    /\ Entities[int(LastParts[2])].cc_vid \in vid_to_load

C32_KelvinClamped ==
    /\ \A v \in Outputs : color_temp[v] >= 22000 /\ color_temp[v] <= 60000
    /\ LastIsColorLine =>
          LET lv == float(LastParts[3])
              light == Entities[int(LastParts[2])].cc_vid
              kelvin == lastRecv.after.color_temp[light] IN
          /\ lv < 0 => kelvin = 22000
          /\ lv > 1000 => kelvin = 60000
          /\ (lv >= 0 /\ lv <= 1000) => kelvin = 22000 + 38 * lv

\* The levels 250 and 45.5 were reported for the color controller of load
\* 1: the load's color temperature went to 6000 and then to 3929.
C32_Witness ==
    /\ LastIsColorLine
    /\ lastRecv.n = 2
    /\ LastParts[3] = "45.5"
    /\ lastRecv.before.color_temp[1] = 60000
    /\ lastRecv.after.color_temp[1] = 39290
    /\ fedLog[1].rest = <<"LOAD", " ", "2", " ", "250">>

(***************************************************************************)
(* C33: level_to_kelvin(kelvin_to_level(k)) equals k, within rounding      *)
(* (a tenth of a kelvin), for every k in [2200,6000]; kelvin_to_level(k)   *)
(* is 0 for k below 2200 and 100 for k above 6000.                         *)
(***************************************************************************)
C33_KelvinRoundTrip ==
    lastCall.fn = "kelvin_round_trip" =>
        LET k == lastCall.kelvin
            l == lastCall.level
            b == lastCall.back IN
        /\ (k >= 22000 /\ k <= 60000) => (b - k <= 1 /\ k - b <= 1)
        /\ k < 22000 => l.num = 0
        /\ k > 60000 => l.num = 100 * l.den

\* 3333.3 K was converted to a level strictly between 0 and 100 and back.
C33_Witness ==
    /\ lastCall.fn = "kelvin_round_trip"
    /\ lastCall.kelvin = 33333
    /\ lastCall.level.num > 0
    /\ lastCall.level.num < 100 * lastCall.level.den
    /\ lastCall.back = 33333

(***************************************************************************)
(* C34: computing an entity's area lineage by following parent links ends  *)
(* after a bounded number of hops for every area map, also one whose       *)
(* parent links form a cycle or point to a missing area: at most 10 hops   *)
(* in get_lineage_from_obj and at most 5 in full_lineage.                  *)
(***************************************************************************)
C34_LineageBounded ==
    lastCall.fn = "lineage" =>
        /\ lastCall.lineage.count <= 10
        /\ Len(lastCall.lineage.answer) <= 11
        /\ lastCall.full.count <= 5
        /\ Len(lastCall.full.areas) <= 5

\* Areas 1 and 2 are each other's parent: both traversals stop at their
\* bound.
C34_Witness ==
    /\ lastCall.fn = "lineage"
    /\ lastCall.map[1] = 2
    /\ lastCall.map[2] = 1
    /\ lastCall.area = 1
    /\ lastCall.lineage.count = 10
    /\ lastCall.full.count = 5
    /\ lastCall.full.areas = <<1, 2, 1, 2, 1>>

(***************************************************************************)
(* C35: under concurrent send_cmd calls of several foreground threads the  *)
(* order of the commands in the queue of pending commands equals the order *)
(* in which they are written to the transport: commands are written in the *)
(* order in which they were appended to the queue.                         *)
(***************************************************************************)
C35_QueueOrderIsWireOrder ==
    \A i, j \in 1..Len(written) :
        (i < j /\ written[i].n > 0 /\ written[j].n > 0)
            => written[i].n < written[j].n

(***************************************************************************)
(* C36: with a controller that answers every line written to it with one   *)
(* R line, the queue of pending commands holds exactly the commands issued *)
(* through send_cmd whose response has not been dispatched yet: a response *)
(* to a handshake command removes no entry that send_cmd enqueued, every   *)
(* command awaiting its response is queued, and after a reconnect every   *)
(* queued command was written in the new session or is about to be         *)
(* written.                                                                *)
(***************************************************************************)
\* The commands of send_cmd that were written and whose response has not
\* reached _recv yet.
AwaitingResponse ==
    {c \in SeqToSet(wire) \cup {inbuf[i].re : i \in 1..Len(inbuf)} : c.n > 0}

C36_QueueIsOutstandingCommands ==
    /\ lastMatch.resp.n = 0 => lastMatch.cmd.n = 0
    /\ \A c \in AwaitingResponse : c \in SeqToSet(cmds)
    /\ (sessions >= 2 /\ connected) => \A c \in SeqToSet(cmds) :
         \/ c \in SeqToSet(written)
         \/ \E t \in Threads : /\ pc[t] = "send_write"
                               /\ todo[t] # <<>>
                               /\ Head(todo[t]) = c

(***************************************************************************)
(* C37: if send_cmd fails because the write to the transport raises, the   *)
(* queue of pending commands is as it was before the call: a command that  *)
(* was not written is not left in the queue.                               *)
(***************************************************************************)
\* A step in which the write of a thread's command raises leaves the
\* command out of the queue.
FailedSendNotQueued ==
    \A t \in Threads :
        (pc[t] = "send_write" /\ pc'[t] = "raised")
            => Head(todo[t]) \notin SeqToSet(cmds')

C37_FailedSendNotQueued == [][FailedSendNotQueued]_vars

(***************************************************************************)
(* C38: whenever a foreground thread holds the connection lock inside      *)
(* send_ascii_nl, a transport session exists (the telnet handle is not     *)
(* None): neither before the first connect() nor between a disconnect and  *)
(* the reconnect does a send take the lock and find no session.            *)
(***************************************************************************)
\* A step in which a thread takes the lock for its write finds a session.
SendFindsSession ==
    \A t \in Threads :
        (pc[t] = "send_write" /\ pc'[t] # "send_write") => telnet # 0

C38_SendFindsSession == [][SendFindsSession]_vars

(***************************************************************************)
(* C39: the handshake is atomic with respect to foreground sends: the      *)
(* connection thread holds the connection lock from before the transport   *)
(* is opened until the connected flag is set, so no line of a foreground   *)
(* send is written to a session between its opening and the writing of the *)
(* last subscription command (STATUS VARIABLE).                            *)
(***************************************************************************)
C39_HandshakeAtomic ==
    /\ bgPc \in {"open", "sleep", "login"} => lock = "bg" /\ ~connected
    /\ \A i \in 1..Len(written) :
         i <= Len(LoginCmds) => written[i] = LoginCmds[i]

(***************************************************************************)
(* C40: for a shade every round of the request helper is closed: once a    *)
(* Shade.level read has sent GETBLIND and the controller's answer (the     *)
(* R:GETBLIND response or an S:BLIND status of the shade) is dispatched,   *)
(* the shade's list of waiters is empty, so that a later read sends a new  *)
(* GETBLIND.                                                               *)
(***************************************************************************)
\* GETBLIND has been written for the shade, and the line the connection
\* thread is dispatching answers it or is a status line of the shade.
ShadeAnswerInDispatch ==
    /\ \E i \in 1..Len(written) : [written[i] EXCEPT !.n = 0] = ShadeQueryCmd
    /\ bgPc = "recv"
    /\ \/ line.head = <<"R", ":">> /\ line.re = [ShadeQueryCmd EXCEPT !.n = line.re.n]
       \/ /\ line.head = <<"S", ":">>
          /\ Len(line.rest) >= 3
          /\ SubSeq(line.rest, 1, 3) = <<"BLIND", " ", str(ShadeVid)>>

\* The dispatch of the shade's answer leaves no waiter.
ShadeRoundClosed ==
    (ShadeAnswerInDispatch /\ bgPc' # "recv") => shadeEvents' = <<>>

C40_ShadeRoundClosed == [][ShadeRoundClosed]_vars

====
